---------------------------- MODULE Spec2Model ----------------------------
(***************************************************************************)
(* A model of the Gate-A validator (scripts/gate_a_check.py): the verdict  *)
(* aggregator run_gate_a, the configuration resolver load_config, the      *)
(* driver main, the identifier extractor, the section extractor and the    *)
(* checks 2, 3, 6, 7, 8, 9, 10, 12, 13, 15, 16 and 17.                     *)
(*                                                                         *)
(* The module holds several specifications over one set of variables; a    *)
(* specification leaves the variables of the other parts at their initial  *)
(* values.                                                                 *)
(*   SpecAgg : CheckResult objects are built, failed and warned, then      *)
(*             run_gate_a aggregates them.                                 *)
(*   SpecIds : extract_ids, extract_defined_ids and check_2_id_integrity   *)
(*             are applied to a document text.                             *)
(*   SpecCfg : load_config is called repeatedly and its results mutated.   *)
(*   SpecLoad: load_config is called once on one override file.            *)
(*   SpecRun : the module is imported and main runs the checks on a        *)
(*             document under the configuration files it finds.            *)
(*   SpecSec : _extract_section is applied to a text and a heading.        *)
(*   SpecPh  : check_3_placeholders runs under configured patterns.        *)
(*   SpecStrict, SpecCov, SpecTrig, SpecEvd, SpecBind : checks 8, 13, 9,   *)
(*             7 and 10 are each applied to a document.                    *)
(*   SpecSoft: a failing hard check and the soft checks 15, 16 and 17 run  *)
(*             on a document and run_gate_a aggregates them.               *)
(*   SpecPar : the checks run in any order on one document and their       *)
(*             results are gathered into main's two lists.                 *)
(*   SpecRef, SpecMany : checks 2 and 7 are applied to documents that cite *)
(*             evidence, and to documents with many findings.              *)
(*   SpecLevel : checks 8 and 13 read the strictness of one document.      *)
(*   SpecOrphan, SpecMust, SpecCat : checks 17, 12 and 6 are each applied  *)
(*             to a document.                                              *)
(*   SpecRaw : check 7 is applied to an evidence store as read from its    *)
(*             file, with optional fields absent or null.                  *)
(***************************************************************************)
EXTENDS Naturals, Sequences, FiniteSets, TLC

VARIABLES
    pc,            \* position of the modelled caller in its specification
    hard_results,  \* run_gate_a's first argument: a list of CheckResult
    soft_results,  \* run_gate_a's second argument: a list of CheckResult
    report,        \* what run_gate_a returned (NoReport before the call)
    text,          \* the document text handed to the extractor and to check 2
    ids,           \* what extract_ids(text) returned
    defined,       \* first component of extract_defined_ids(text)
    all_ids,       \* second component of extract_defined_ids(text)
    check2,        \* the CheckResult of check_2_id_integrity(text)
    heap,          \* the container objects: heap[n] is the object of identity n
    loaded,        \* per load_config call: its file, its exception or its cfg
    snap,          \* per returned cfg: its value at return, as updated by
                   \* the mutations its own caller made through it
    muts,          \* how many mutations the callers have made
    adjacent,      \* the file gate_a_config.json in the script's directory
    args,          \* the command line: whether --config is given, its file
    constants,     \* the module-level constants derived at import
    doc_findings,  \* the checks, other than 2 and 3, the document trips
    heading_pattern, \* _extract_section's second argument
    extracted,     \* what _extract_section returned
    evidence,      \* the evidence store handed to check 7
    result         \* the CheckResult of the check applied to the document

aggVars == <<hard_results, soft_results, report>>
idVars == <<text, ids, defined, all_ids, check2>>
cfgVars == <<heap, loaded, snap, muts>>
runVars == <<adjacent, args, constants, doc_findings>>
chkVars == <<heading_pattern, extracted, evidence, result>>
vars == <<pc, aggVars, idVars, cfgVars, runVars, chkVars>>

(***************************************************************************)
(* Bounds of the aggregator part.                                          *)
(***************************************************************************)
MaxResults == 3   \* CheckResult objects constructed, over both lists
MaxCalls == 2     \* fail() and warn() calls, over all results
CheckNames == {"c1", "c2"}
Msgs == {"m1", "m2"}

(***************************************************************************)
(* class CheckResult                                                       *)
(***************************************************************************)
CheckResult(name, kind) ==
    [name |-> name, kind |-> kind, passed |-> TRUE,
     issues |-> <<>>, warnings |-> <<>>]

\* an issue recorded without the verdict
FailKeepsPassed(r, msg) == [r EXCEPT !.issues = Append(@, msg)]

fail(r, msg) == [r EXCEPT !.passed = FALSE, !.issues = Append(@, msg)]

\* a warning recorded as an issue
WarnAsIssue(r, msg) == [r EXCEPT !.passed = FALSE, !.issues = Append(@, msg)]

warn(r, msg) == [r EXCEPT !.warnings = Append(@, msg)]

(***************************************************************************)
(* run_gate_a                                                              *)
(***************************************************************************)
NameList(rs) == [i \in 1..Len(rs) |-> rs[i].name]

IsPassed(r) == r.passed
IsFailed(r) == ~r.passed
HasWarnings(r) == r.warnings # <<>>

\* [r.name for r in hard_results if r.passed]
HardPass(hard) == NameList(SelectSeq(hard, IsPassed))
\* [r.name for r in hard_results if not r.passed]
HardFail(hard) == NameList(SelectSeq(hard, IsFailed))
\* [r.name for r in soft_results if r.warnings]
SoftWarn(soft) == NameList(SelectSeq(soft, HasWarnings))

DetailEntry(r) == [passed |-> r.passed, issues |-> r.issues, warnings |-> r.warnings]

\* the loop "for r in hard_results + soft_results: details[r.name] = {...}":
\* a later result of the same name overwrites the entry of an earlier one
RECURSIVE DetailsLoop(_, _, _)
DetailsLoop(rs, i, details) ==
    IF i > Len(rs) THEN details
    ELSE DetailsLoop(rs, i + 1, (rs[i].name :> DetailEntry(rs[i])) @@ details)

EmptyDict == [n \in {} |-> DetailEntry(CheckResult("", "hard"))]

DetailsHardOnly(hard, soft) == DetailsLoop(hard, 1, EmptyDict)

Details(hard, soft) == DetailsLoop(hard \o soft, 1, EmptyDict)

OverallWarnFirst(hard_fail, soft_warn) ==
    IF soft_warn # <<>> THEN "WARN"
    ELSE IF hard_fail # <<>> THEN "FAIL"
    ELSE "PASS"

Overall(hard_fail, soft_warn) ==
    IF hard_fail # <<>> THEN "FAIL"
    ELSE IF soft_warn # <<>> THEN "WARN"
    ELSE "PASS"

run_gate_a(hard, soft) ==
    [hard_pass |-> HardPass(hard),
     hard_fail |-> HardFail(hard),
     soft_warn |-> SoftWarn(soft),
     overall |-> Overall(HardFail(hard), SoftWarn(soft)),
     details |-> Details(hard, soft)]

NoReport ==
    [hard_pass |-> <<>>, hard_fail |-> <<>>, soft_warn |-> <<>>,
     overall |-> "NONE", details |-> EmptyDict]

(***************************************************************************)
(* Text: a str is a sequence of one-character strings.                     *)
(***************************************************************************)
UpperChars ==
    {"A", "B", "C", "D", "E", "F", "G", "H", "I", "J", "K", "L", "M",
     "N", "O", "P", "Q", "R", "S", "T", "U", "V", "W", "X", "Y", "Z"}
LowerChars ==
    {"a", "b", "c", "d", "e", "f", "g", "h", "i", "j", "k", "l", "m",
     "n", "o", "p", "q", "r", "s", "t", "u", "v", "w", "x", "y", "z"}
DigitChars == {"0", "1", "2", "3", "4", "5", "6", "7", "8", "9"}
\* \w
WordChars == UpperChars \cup LowerChars \cup DigitChars \cup {"_"}
\* \s, and what str.strip() removes
SpaceChars == {" ", "\t", "\n", "\r"}
\* the character class [-*>#\d.]
MarkerChars == {"-", "*", ">", "#", "."} \cup DigitChars

\* \b at position p: between s[p-1] and s[p], exactly one is a word character
IsBoundary(s, p) ==
    ((p > 1 /\ p - 1 <= Len(s)) /\ s[p - 1] \in WordChars)
        # (p <= Len(s) /\ s[p] \in WordChars)

\* where a greedy run of characters of class cls that starts at p ends
\* (the first position past it)
RECURSIVE RunEnd(_, _, _)
RunEnd(s, p, cls) ==
    IF p <= Len(s) /\ s[p] \in cls THEN RunEnd(s, p + 1, cls) ELSE p

\* the literal lit stands at position p of s
HasAt(s, p, lit) ==
    /\ p >= 1
    /\ p + Len(lit) - 1 <= Len(s)
    /\ \A i \in 1..Len(lit) : s[p + i - 1] = lit[i]

\* str.startswith
StartsWith(s, prefix) == HasAt(s, 1, prefix)

\* the alternation (HR|DEC|REQ|SCN|CHG|EVD) of ID_PATTERN
IdKinds ==
    {<<"H", "R">>, <<"D", "E", "C">>, <<"R", "E", "Q">>,
     <<"S", "C", "N">>, <<"C", "H", "G">>, <<"E", "V", "D">>}

\* \d{3,}
MinIdDigits == 3

NoMatch == [start |-> 0, end |-> 0, g1 |-> <<>>, g2 |-> <<>>]

\* ID_PATTERN = \b(HR|DEC|REQ|SCN|CHG|EVD)-(\d{3,})\b tried at position p:
\* the match (start, end exclusive, the two groups) or NoMatch
MatchIdAt(s, p) ==
    IF ~IsBoundary(s, p) THEN NoMatch
    ELSE LET ks == {k \in IdKinds : HasAt(s, p, k \o <<"-">>)} IN
         IF ks = {} THEN NoMatch
         ELSE LET k == CHOOSE x \in ks : TRUE
                  d == p + Len(k) + 1
                  e == RunEnd(s, d, DigitChars)
              IN IF e - d >= MinIdDigits /\ IsBoundary(s, e)
                 THEN [start |-> p, end |-> e, g1 |-> k, g2 |-> SubSeq(s, d, e - 1)]
                 ELSE NoMatch

\* DOMAIN_HR_PATTERN = \b([A-Z]+)-HR-(\d{3,})\b tried at position p
MatchDomainAt(s, p) ==
    IF ~IsBoundary(s, p) THEN NoMatch
    ELSE LET u == RunEnd(s, p, UpperChars)
             d == u + 4
             e == RunEnd(s, d, DigitChars)
         IN IF /\ u > p
               /\ HasAt(s, u, <<"-", "H", "R", "-">>)
               /\ e - d >= MinIdDigits
               /\ IsBoundary(s, e)
            THEN [start |-> p, end |-> e, g1 |-> SubSeq(s, p, u - 1),
                  g2 |-> SubSeq(s, d, e - 1)]
            ELSE NoMatch

MatchAt(pat, s, p) ==
    IF pat = "ID_PATTERN" THEN MatchIdAt(s, p) ELSE MatchDomainAt(s, p)

\* pattern.finditer(s): the non-overlapping matches, left to right
RECURSIVE FindIter(_, _, _)
FindIter(pat, s, p) ==
    IF p > Len(s) THEN <<>>
    ELSE LET m == MatchAt(pat, s, p) IN
         IF m.start > 0 THEN <<m>> \o FindIter(pat, s, m.end)
         ELSE FindIter(pat, s, p + 1)

\* str.split('\n'): the pieces of s from position p on, the first one
\* prefixed with cur; a piece ends at the next newline or at the end of s
RECURSIVE SplitLines(_, _, _)
SplitLines(s, p, cur) ==
    LET newlines == {q \in p..Len(s) : s[q] = "\n"} IN
    IF newlines = {} THEN <<cur \o SubSeq(s, p, Len(s))>>
    ELSE LET e == CHOOSE q \in newlines : \A x \in newlines : q <= x
         IN <<cur \o SubSeq(s, p, e - 1)>> \o SplitLines(s, e + 1, <<>>)

RECURSIVE LastNonSpace(_, _)
LastNonSpace(s, p) ==
    IF p >= 1 /\ s[p] \in SpaceChars THEN LastNonSpace(s, p - 1) ELSE p

\* str.strip()
Strip(s) == SubSeq(s, RunEnd(s, 1, SpaceChars), LastNonSpace(s, Len(s)))

(***************************************************************************)
(* _domain_hr_spans, _is_inside_domain_hr, extract_ids, extract_defined_ids*)
(***************************************************************************)
SeqRange(s) == {s[i] : i \in 1..Len(s)}

_domain_hr_spans(s) ==
    {<<m.start, m.end>> : m \in SeqRange(FindIter("DOMAIN_HR_PATTERN", s, 1))}

NeverInsideDomainHr(pos, end, spans) == FALSE

_is_inside_domain_hr(pos, end, spans) ==
    \E sp \in spans : sp[1] <= pos /\ end <= sp[2]

\* f"{m.group(1)}-{m.group(2)}"
GenericId(m) == m.g1 \o <<"-">> \o m.g2
\* f"{m.group(1)}-HR-{m.group(2)}"
DomainId(m) == m.g1 \o <<"-", "H", "R", "-">> \o m.g2

extract_ids(s) ==
    LET domain_spans == _domain_hr_spans(s) IN
    {GenericId(m) : m \in {x \in SeqRange(FindIter("ID_PATTERN", s, 1)) :
                              ~_is_inside_domain_hr(x.start, x.end, domain_spans)}}
    \cup {DomainId(m) : m \in SeqRange(FindIter("DOMAIN_HR_PATTERN", s, 1))}

\* re.match(r'^[-*>#\d.]+\s*' + re.escape(full_id), stripped)
MatchesAfterMarker(stripped, full_id) ==
    LET i == RunEnd(stripped, 1, MarkerChars)
        j == RunEnd(stripped, i, SpaceChars)
    IN i > 1 /\ HasAt(stripped, j, full_id)

\* re.match(r'^\|\s*' + re.escape(full_id), stripped)
MatchesAfterBar(stripped, full_id) ==
    /\ Len(stripped) >= 1 /\ stripped[1] = "|"
    /\ HasAt(stripped, RunEnd(stripped, 2, SpaceChars), full_id)

\* the condition under which extract_defined_ids adds full_id to defined
IsDefinedOn(stripped, full_id) ==
    \/ StartsWith(stripped, full_id)
    \/ MatchesAfterMarker(stripped, full_id)
    \/ MatchesAfterBar(stripped, full_id)

\* the identifiers one line contributes: the ID_PATTERN matches outside
\* domain spans and the DOMAIN_HR_PATTERN matches
LineIds(stripped) ==
    LET domain_spans == _domain_hr_spans(stripped) IN
    {GenericId(m) : m \in {x \in SeqRange(FindIter("ID_PATTERN", stripped, 1)) :
                              ~_is_inside_domain_hr(x.start, x.end, domain_spans)}}
    \cup {DomainId(m) : m \in SeqRange(FindIter("DOMAIN_HR_PATTERN", stripped, 1))}

StrippedLines(s) ==
    LET lines == SplitLines(s, 1, <<>>) IN [i \in 1..Len(lines) |-> Strip(lines[i])]

extract_defined_ids(s) ==
    LET lines == StrippedLines(s) IN
    [defined |-> UNION {{id \in LineIds(lines[i]) : IsDefinedOn(lines[i], id)} :
                          i \in 1..Len(lines)},
     all_ids |-> UNION {LineIds(lines[i]) : i \in 1..Len(lines)}]

(***************************************************************************)
(* check_2_id_integrity                                                    *)
(***************************************************************************)
\* the characters of identifiers and of category names, in code-point order
\* (what sorted() uses)
CharOrder ==
    <<" ", "-", "0", "1", "2", "3", "4", "5", "6", "7", "8", "9",
      "A", "B", "C", "D", "E", "F", "G", "H", "I", "J", "K", "L", "M",
      "N", "O", "P", "Q", "R", "S", "T", "U", "V", "W", "X", "Y", "Z", "_",
      "a", "b", "c", "d", "e", "f", "g", "h", "i", "j", "k", "l", "m",
      "n", "o", "p", "q", "r", "s", "t", "u", "v", "w", "x", "y", "z">>

Rank(c) == CHOOSE i \in 1..Len(CharOrder) : CharOrder[i] = c

\* a < b for two str values
RECURSIVE StrLess(_, _, _)
StrLess(a, b, i) ==
    IF i > Len(a) THEN i <= Len(b)
    ELSE IF i > Len(b) THEN FALSE
    ELSE IF a[i] = b[i] THEN StrLess(a, b, i + 1)
    ELSE Rank(a[i]) < Rank(b[i])

\* sorted(S)
RECURSIVE Sorted(_)
Sorted(S) ==
    IF S = {} THEN <<>>
    ELSE LET least == CHOOSE x \in S : \A y \in S \ {x} : StrLess(x, y, 1)
         IN <<least>> \o Sorted(S \ {least})

\* the [:10] of "for d in sorted(dangling)[:10]"
MaxDanglingShown == 10

Take(s, n) == SubSeq(s, 1, IF Len(s) < n THEN Len(s) ELSE n)

MatchIds(ms, domain) ==
    [i \in 1..Len(ms) |-> IF domain THEN DomainId(ms[i]) ELSE GenericId(ms[i])]

\* the full_id values for which one line executes id_def_count[full_id] += 1,
\* in the order of execution: first the ID_PATTERN loop, then the
\* DOMAIN_HR_PATTERN loop
LineCountEvents(stripped) ==
    LET domain_spans == _domain_hr_spans(stripped)
        Outside(m) == ~_is_inside_domain_hr(m.start, m.end, domain_spans)
        AtStart(id) == StartsWith(stripped, id)
        AtStartOrMarker(id) ==
            StartsWith(stripped, id) \/ MatchesAfterMarker(stripped, id)
    IN SelectSeq(MatchIds(SelectSeq(FindIter("ID_PATTERN", stripped, 1), Outside),
                          FALSE), AtStart)
       \o SelectSeq(MatchIds(FindIter("DOMAIN_HR_PATTERN", stripped, 1), TRUE),
                    AtStartOrMarker)

RECURSIVE CountEvents(_, _)
CountEvents(lines, i) ==
    IF i > Len(lines) THEN <<>>
    ELSE LineCountEvents(lines[i]) \o CountEvents(lines, i + 1)

\* id_def_count after the loop: the keys in insertion order and their counts
RECURSIVE IdDefCount(_, _, _)
IdDefCount(events, i, d) ==
    IF i > Len(events) THEN d
    ELSE LET id == events[i] IN
         IdDefCount(events, i + 1,
             IF id \in SeqRange(d.keys)
             THEN [d EXCEPT !.count[id] = @ + 1]
             ELSE [keys |-> Append(d.keys, id), count |-> (id :> 1) @@ d.count])

EmptyCount == [keys |-> <<>>, count |-> [x \in {} |-> 0]]

DuplicateIssue(id, n) == [kind |-> "Duplicate ID definition", id |-> id, count |-> n]
DanglingIssue(id) == [kind |-> "Dangling reference", id |-> id, count |-> 0]

RECURSIVE FailAll(_, _, _)
FailAll(r, msgs, i) ==
    IF i > Len(msgs) THEN r ELSE FailAll(fail(r, msgs[i]), msgs, i + 1)

check_2_id_integrity(rfc) ==
    LET ex == extract_defined_ids(rfc)
        referenced == ex.all_ids \ ex.defined
        d == IdDefCount(CountEvents(StrippedLines(rfc), 1), 1, EmptyCount)
        IsDup(id) == d.count[id] > 1
        dupKeys == SelectSeq(d.keys, IsDup)
        dups == [i \in 1..Len(dupKeys) |-> DuplicateIssue(dupKeys[i], d.count[dupKeys[i]])]
        dangling == referenced \ ex.defined
        shown == Take(Sorted(dangling), MaxDanglingShown)
        dang == [i \in 1..Len(shown) |-> DanglingIssue(shown[i])]
    IN FailAll(CheckResult("2. ID integrity & references", "hard"), dups \o dang, 1)


(***************************************************************************)
(* Python objects.  A container (list, dict) is an object of the heap; an  *)
(* item is a scalar or a reference to a container.  heap[n] is the object  *)
(* of identity n.  Strings that are not ASCII in the source are spelled    *)
(* here by an ASCII transliteration with the prefix zh_.                   *)
(***************************************************************************)
Str(s) == [t |-> "str", s |-> s, n |-> 0]
Num(s) == [t |-> "num", s |-> s, n |-> 0]
Bool(b) == [t |-> "bool", s |-> IF b THEN "true" ELSE "false", n |-> 0]
Null == [t |-> "null", s |-> "null", n |-> 0]
Ref(n) == [t |-> "ref", s |-> "", n |-> n]

ListObj(items) == [t |-> "list", keys |-> <<>>, items |-> items]
DictObj(keys, items) == [t |-> "dict", keys |-> keys, items |-> items]

StrList(ss) == ListObj([i \in 1..Len(ss) |-> Str(ss[i])])
StrDict(ks, vs) == DictObj(ks, [i \in 1..Len(vs) |-> Str(vs[i])])

ConfigKeys ==
    <<"min_scn_categories", "reject_categories", "allowed_lang_tags",
      "meta_fields", "review_keywords", "normative_keywords",
      "heading_category_map", "placeholder_patterns">>

\* DEFAULT_CONFIG is object 1; its eight values are objects 2..9
DefaultHeap ==
    <<DictObj(ConfigKeys, [i \in 1..Len(ConfigKeys) |-> Ref(i + 1)]),
      StrList(<<"normal", "reject_authn", "reject_authz",
                "limits_quota", "dependency_down", "abuse">>),
      StrList(<<"reject_authn", "reject_authz">>),
      StrList(<<"", "text", "contract", "json", "mermaid", "bash">>),
      StrList(<<"template_id", "template_version", "strictness">>),
      StrList(<<"zh_beijing", "zh_tongdian", "zh_mubiao", "zh_jielun",
                "zh_fangan", "zh_yingxiang">>),
      StrList(<<"zh_anquan", "zh_kekao", "zh_yanshou", "zh_juece", "zh_keguance">>),
      StrDict(<<"normal", "zh_zhengchang", "authn", "authz", "zh_quanxian",
                "zh_yuequan", "reject", "limits", "quota", "zh_feifazhi",
                "zh_bianjie", "dependency", "zh_yilai", "zh_guzhang",
                "recovery", "abuse", "zh_lanyong", "zh_lubang">>,
              <<"normal", "normal", "reject_authn", "reject_authz", "reject_authz",
                "reject_authz", "reject_authz", "limits_quota", "limits_quota",
                "limits_quota", "limits_quota", "dependency_down",
                "dependency_down", "dependency_down", "dependency_down",
                "abuse", "abuse", "abuse">>),
      StrList(<<"(?<![A-Za-z])TBD(?![A-Za-z])", "(?<![A-Za-z])XXX(?![A-Za-z])",
                "(?<![A-Za-z])TODO(?![A-Za-z])", "(?<![A-Za-z])FIXME(?![A-Za-z])",
                "<\\.\\.\\.>">>)>>

DEFAULT_CONFIG == Ref(1)

IndexOf(seq, x) == CHOOSE i \in 1..Len(seq) : seq[i] = x

\* d[k] for a dict object d that has the key k
DictGet(obj, k) == obj.items[IndexOf(obj.keys, k)]

\* d.get(k, default)
DictGetOr(obj, k, default) ==
    IF k \in {obj.keys[i] : i \in 1..Len(obj.keys)} THEN DictGet(obj, k) ELSE default

\* d[k] = v: an existing key keeps its place, a new key goes last
DictSet(obj, k, v) ==
    IF k \in {obj.keys[i] : i \in 1..Len(obj.keys)}
    THEN [obj EXCEPT !.items[IndexOf(obj.keys, k)] = v]
    ELSE [obj EXCEPT !.keys = Append(@, k), !.items = Append(@, v)]

\* the value an item denotes, as the sequence of tokens of its JSON text
\* (two items are == in Python iff these are equal, key order aside)
RECURSIVE Ser(_, _)
RECURSIVE SerItems(_, _, _)
Ser(h, item) ==
    IF item.t # "ref" THEN <<item.t, item.s>>
    ELSE LET obj == h[item.n] IN
         IF obj.t = "list" THEN <<"[">> \o SerItems(h, obj, 1) \o <<"]">>
         ELSE <<"{">> \o SerItems(h, obj, 1) \o <<"}">>
SerItems(h, obj, i) ==
    IF i > Len(obj.items) THEN <<>>
    ELSE (IF obj.t = "dict" THEN <<obj.keys[i], ":">> ELSE <<>>)
         \o Ser(h, obj.items[i]) \o <<",">> \o SerItems(h, obj, i + 1)

\* the identities of the containers reachable from an item
RECURSIVE Reachable(_, _)
Reachable(h, item) ==
    IF item.t # "ref" THEN {}
    ELSE {item.n} \cup UNION {Reachable(h, h[item.n].items[i]) :
                                i \in 1..Len(h[item.n].items)}

\* copy.deepcopy(item): every container reachable from item is copied to a
\* new object; returns the new heap and the item for the copy
RECURSIVE DeepCopy(_, _)
RECURSIVE DeepCopyItems(_, _, _, _)
DeepCopyItems(h, items, i, acc) ==
    IF i > Len(items) THEN [h |-> h, items |-> acc]
    ELSE LET c == DeepCopy(h, items[i]) IN
         DeepCopyItems(c.h, items, i + 1, Append(acc, c.item))

\* dict(item) / copy.copy(item): a new top-level object holding the same items
ShallowCopy(h, item) ==
    IF item.t # "ref" THEN [h |-> h, item |-> item]
    ELSE [h |-> Append(h, h[item.n]), item |-> Ref(Len(h) + 1)]

DeepCopy(h, item) ==
    IF item.t # "ref" THEN [h |-> h, item |-> item]
    ELSE LET c == DeepCopyItems(h, h[item.n].items, 1, <<>>) IN
         [h |-> Append(c.h, [h[item.n] EXCEPT !.items = c.items]),
          item |-> Ref(Len(c.h) + 1)]

(***************************************************************************)
(* A file at the path handed to open().  kind is                           *)
(*   "absent"      no such file: open raises FileNotFoundError             *)
(*   "unreadable"  a directory or an unreadable file: open raises another  *)
(*                 OSError (IsADirectoryError, PermissionError)            *)
(*   "undecodable" bytes that are not UTF-8: read raises UnicodeDecodeError*)
(*   "badjson"     text that is no JSON: json.load raises JSONDecodeError  *)
(*   "json"        a JSON text; root is the item it denotes and nodes are  *)
(*                 its containers, references counting from 1              *)
(***************************************************************************)
File(kind, nodes, root) == [kind |-> kind, nodes |-> nodes, root |-> root]

AbsentFile == File("absent", <<>>, Null)
JsonFile(nodes, root) == File("json", nodes, root)

Relocate(obj, off) ==
    [obj EXCEPT !.items =
        [i \in 1..Len(obj.items) |->
            IF obj.items[i].t = "ref" THEN Ref(obj.items[i].n + off) ELSE obj.items[i]]]

\* with open(path) as f: overrides = json.load(f)
\* exc is "" when a value was loaded, else the exception raised
JsonLoad(h, file) ==
    IF file.kind = "absent" THEN [exc |-> "FileNotFoundError", h |-> h, item |-> Null]
    ELSE IF file.kind = "unreadable" THEN [exc |-> "OSError", h |-> h, item |-> Null]
    ELSE IF file.kind = "undecodable"
         THEN [exc |-> "UnicodeDecodeError", h |-> h, item |-> Null]
    ELSE IF file.kind = "badjson"
         THEN [exc |-> "JSONDecodeError", h |-> h, item |-> Null]
    ELSE [exc |-> "",
          h |-> h \o [i \in 1..Len(file.nodes) |-> Relocate(file.nodes[i], Len(h))],
          item |-> IF file.root.t = "ref" THEN Ref(file.root.n + Len(h)) ELSE file.root]

\* what dict.update makes of one element of a non-mapping iterable: the
\* key/value pair it unpacks to, or the exception it raises
UpdateElement(h, e) ==
    IF e.t = "ref" THEN
        LET obj == h[e.n] IN
        IF Len(obj.items) # 2
        THEN [exc |-> "ValueError", k |-> "", v |-> Null]
        ELSE IF obj.t = "dict"
             THEN [exc |-> "", k |-> obj.keys[1], v |-> Str(obj.keys[2])]
        ELSE IF obj.items[1].t = "ref"
             THEN [exc |-> "TypeError", k |-> "", v |-> Null]
        ELSE [exc |-> "", k |-> obj.items[1].s, v |-> obj.items[2]]
    ELSE IF e.t = "str" THEN
        IF Len(e.s) # 2 THEN [exc |-> "ValueError", k |-> "", v |-> Null]
        ELSE [exc |-> "", k |-> SubSeq(e.s, 1, 1), v |-> Str(SubSeq(e.s, 2, 2))]
    ELSE [exc |-> "TypeError", k |-> "", v |-> Null]

RECURSIVE UpdateFromPairs(_, _, _, _)
UpdateFromPairs(h, cfg, elems, i) ==
    IF i > Len(elems) THEN [exc |-> "", h |-> h]
    ELSE LET p == UpdateElement(h, elems[i]) IN
         IF p.exc # "" THEN [exc |-> p.exc, h |-> h]
         ELSE UpdateFromPairs([h EXCEPT ![cfg.n] = DictSet(@, p.k, p.v)],
                              cfg, elems, i + 1)

RECURSIVE UpdateFromDict(_, _, _, _)
UpdateFromDict(h, cfg, src, i) ==
    IF i > Len(src.keys) THEN [exc |-> "", h |-> h]
    ELSE UpdateFromDict([h EXCEPT ![cfg.n] = DictSet(@, src.keys[i], src.items[i])],
                        cfg, src, i + 1)

\* a deep merge: a dict value of the override is merged into the dict of
\* the same key instead of replacing it
RECURSIVE MergeFromDict(_, _, _, _)
MergeFromDict(h, cfg, src, i) ==
    IF i > Len(src.keys) THEN [exc |-> "", h |-> h]
    ELSE LET k == src.keys[i]
             v == src.items[i]
             has == k \in {h[cfg.n].keys[j] : j \in 1..Len(h[cfg.n].keys)}
             old == DictGetOr(h[cfg.n], k, Null)
         IN IF has /\ old.t = "ref" /\ v.t = "ref"
               /\ h[old.n].t = "dict" /\ h[v.n].t = "dict"
            THEN MergeFromDict(MergeFromDict(h, old, h[v.n], 1).h, cfg, src, i + 1)
            ELSE MergeFromDict([h EXCEPT ![cfg.n] = DictSet(@, k, v)], cfg, src, i + 1)

DictDeepMerge(h, cfg, ov) ==
    IF ov.t = "ref" /\ h[ov.n].t = "dict" THEN MergeFromDict(h, cfg, h[ov.n], 1)
    ELSE [exc |-> "TypeError", h |-> h]

\* cfg.update(overrides)
DictUpdate(h, cfg, ov) ==
    IF ov.t = "ref" THEN
        IF h[ov.n].t = "dict" THEN UpdateFromDict(h, cfg, h[ov.n], 1)
        ELSE UpdateFromPairs(h, cfg, h[ov.n].items, 1)
    ELSE IF ov.t = "str" THEN
        IF Len(ov.s) = 0 THEN [exc |-> "", h |-> h]
        ELSE [exc |-> "ValueError", h |-> h]
    ELSE [exc |-> "TypeError", h |-> h]

\* the exceptions of "except (FileNotFoundError, json.JSONDecodeError): pass"
Caught == {"FileNotFoundError", "JSONDecodeError"}

\* load_config(config_path), file being what is at the path (with
\* config_path None, what is at gate_a_config.json next to the script):
\* the heap afterwards and either the returned cfg or the exception raised
load_config(h, file) ==
    LET c == DeepCopy(h, DEFAULT_CONFIG)
        j == JsonLoad(c.h, file)
    IN IF j.exc \in Caught THEN [exc |-> "", h |-> c.h, cfg |-> c.item]
       ELSE IF j.exc # "" THEN [exc |-> j.exc, h |-> c.h, cfg |-> Null]
       ELSE LET u == DictUpdate(j.h, c.item, j.item) IN
            IF u.exc # "" THEN [exc |-> u.exc, h |-> u.h, cfg |-> Null]
            ELSE [exc |-> "", h |-> u.h, cfg |-> c.item]

(***************************************************************************)
(* Override files.  A JSON mapping is put together from entries, each a    *)
(* top-level key with the tree of its value.                               *)
(***************************************************************************)
Tree(nodes, root) == [nodes |-> nodes, root |-> root]
Scalar(item) == Tree(<<>>, item)
ListTree(ss) == Tree(<<StrList(ss)>>, Ref(1))
DictTree(ks, vs) == Tree(<<StrDict(ks, vs)>>, Ref(1))
Entry(k, tree) == [k |-> k, tree |-> tree]

\* {name: {"enabled": flag}, ...} for the (name, flag) pairs of flags;
\* the flag "nokey" gives the entry {} and the flag "none" no entry
FlagEntry(flag) ==
    IF flag = "nokey" THEN DictObj(<<>>, <<>>)
    ELSE DictObj(<<"enabled">>, <<Bool(flag = "true")>>)

FlagsTree(names, flags) ==
    LET IsSet(nm) == flags[nm] # "none"
        set == SelectSeq(names, IsSet)
    IN Tree(<<DictObj(set, [i \in 1..Len(set) |-> Ref(i + 1)])>>
            \o [i \in 1..Len(set) |-> FlagEntry(flags[set[i]])],
            Ref(1))

\* the JSON mapping with the given entries, in their order
RECURSIVE MappingNodes(_, _, _)
MappingNodes(entries, i, acc) ==
    IF i > Len(entries) THEN acc
    ELSE LET tr == entries[i].tree
             off == Len(acc)
             item == IF tr.root.t = "ref" THEN Ref(tr.root.n + off) ELSE tr.root
         IN MappingNodes(entries, i + 1,
               [acc EXCEPT ![1] = DictSet(@, entries[i].k, item)]
               \o [j \in 1..Len(tr.nodes) |-> Relocate(tr.nodes[j], off)])

MappingFile(entries) ==
    JsonFile(MappingNodes(entries, 1, <<DictObj(<<>>, <<>>)>>), Ref(1))

\* files that are absent, unreadable or hold something other than a JSON
\* mapping
NonMappingFiles ==
    {AbsentFile,
     File("unreadable", <<>>, Null),
     File("undecodable", <<>>, Null),
     File("badjson", <<>>, Null),
     JsonFile(<<>>, Num("5")),
     JsonFile(<<>>, Null),
     JsonFile(<<>>, Bool(TRUE)),
     JsonFile(<<>>, Str("abc")),
     JsonFile(<<>>, Str("")),
     JsonFile(<<ListObj(<<>>)>>, Ref(1)),
     JsonFile(<<ListObj(<<Num("1"), Num("2")>>)>>, Ref(1)),
     JsonFile(<<ListObj(<<Str("ab")>>)>>, Ref(1)),
     JsonFile(<<ListObj(<<Ref(2)>>), ListObj(<<Str("a"), Num("1")>>)>>, Ref(1)),
     JsonFile(<<ListObj(<<Ref(2)>>), ListObj(<<Str("a")>>)>>, Ref(1))}

HardCheckNames ==
    <<"check_10_hr_scn_binding", "check_11_dec_alternatives",
      "check_12_must_pass_validity", "check_13_coverage_matrix",
      "check_14_section_non_empty">>
SoftCheckNames ==
    <<"check_15_diagram_text_pairing", "check_16_unresolved_format",
      "check_17_orphan_scn">>

SeqSet(s) == {s[i] : i \in 1..Len(s)}

OneFlag(names, nm, flag) ==
    FlagsTree(names, [x \in SeqSet(names) |-> IF x = nm THEN flag ELSE "none"])

\* the top-level entries an override mapping is drawn from
OverrideOptions ==
    <<Entry("min_scn_categories", ListTree(<<"normal">>)),
      Entry("reject_categories", ListTree(<<>>)),
      Entry("allowed_lang_tags", ListTree(<<"", "python">>)),
      Entry("meta_fields", ListTree(<<"strictness">>)),
      Entry("review_keywords", ListTree(<<"overview">>)),
      Entry("normative_keywords", Scalar(Null)),
      Entry("heading_category_map", DictTree(<<"login">>, <<"reject_authn">>)),
      Entry("placeholder_patterns", ListTree(<<"ZZZ">>)),
      Entry("hard_checks", OneFlag(HardCheckNames, "check_10_hr_scn_binding", "false")),
      Entry("soft_checks", OneFlag(SoftCheckNames, "check_17_orphan_scn", "false")),
      Entry("unknown_key", Scalar(Str("x")))>>

\* how many top-level keys an override mapping has at most
MaxOverrideKeys == 2

Pick(seq, idx) ==
    LET In(i) == i \in idx IN
    [j \in 1..Len(SelectSeq([i \in 1..Len(seq) |-> i], In)) |->
        seq[SelectSeq([i \in 1..Len(seq) |-> i], In)[j]]]

MappingFiles ==
    {MappingFile(Pick(OverrideOptions, idx)) :
        idx \in {s \in SUBSET (1..Len(OverrideOptions)) : Cardinality(s) <= MaxOverrideKeys}}

(***************************************************************************)
(* Module-level constants derived from _CFG = load_config() at import      *)
(***************************************************************************)
\* list(x) for a list or dict object x: its elements, or its keys
ListOf(h, item) ==
    LET obj == h[item.n] IN
    IF obj.t = "dict" THEN obj.keys ELSE [i \in 1..Len(obj.items) |-> obj.items[i].s]

\* dict(x) for a dict object x with str values
DictOf(h, item) ==
    LET obj == h[item.n] IN
    [keys |-> obj.keys, vals |-> [i \in 1..Len(obj.items) |-> obj.items[i].s]]

\* set(), list() and dict() raise TypeError on a value that is no container
\* (None, a number); dict() raises on a list of str as well
Derivable(h, cfg) ==
    /\ \A k \in SeqSet(ConfigKeys) : DictGet(h[cfg.n], k).t = "ref"
    /\ h[DictGet(h[cfg.n], "heading_category_map").n].t = "dict"

ModuleConstants(h, cfg) ==
    LET V(k) == DictGet(h[cfg.n], k) IN
    [MIN_SCN_CATEGORIES |-> SeqSet(ListOf(h, V("min_scn_categories"))),
     REJECT_CATEGORIES |-> SeqSet(ListOf(h, V("reject_categories"))),
     ALLOWED_LANG_TAGS |-> SeqSet(ListOf(h, V("allowed_lang_tags"))),
     META_FIELDS |-> ListOf(h, V("meta_fields")),
     REVIEW_KEYWORDS |-> ListOf(h, V("review_keywords")),
     NORMATIVE_KEYWORDS |-> ListOf(h, V("normative_keywords")),
     HEADING_CATEGORY_MAP |-> DictOf(h, V("heading_category_map")),
     PLACEHOLDER_PATTERNS |-> ListOf(h, V("placeholder_patterns"))]

NoConstants ==
    [MIN_SCN_CATEGORIES |-> {}, REJECT_CATEGORIES |-> {}, ALLOWED_LANG_TAGS |-> {},
     META_FIELDS |-> <<>>, REVIEW_KEYWORDS |-> <<>>, NORMATIVE_KEYWORDS |-> <<>>,
     HEADING_CATEGORY_MAP |-> [keys |-> <<>>, vals |-> <<>>],
     PLACEHOLDER_PATTERNS |-> <<>>]

(***************************************************************************)
(* check_3_placeholders                                                    *)
(***************************************************************************)
AsciiLetters == UpperChars \cup LowerChars

\* what a placeholder pattern matches: the literal lit, and with guarded
\* only where no ASCII letter stands right before or right after it
\* (the lookarounds (?<![A-Za-z]) and (?![A-Za-z]))
Pattern(lit, guarded) == [lit |-> lit, guarded |-> guarded]

CompilePattern(src) ==
    CASE src = "(?<![A-Za-z])TBD(?![A-Za-z])" -> Pattern(<<"T", "B", "D">>, TRUE)
      [] src = "(?<![A-Za-z])XXX(?![A-Za-z])" -> Pattern(<<"X", "X", "X">>, TRUE)
      [] src = "(?<![A-Za-z])TODO(?![A-Za-z])" -> Pattern(<<"T", "O", "D", "O">>, TRUE)
      [] src = "(?<![A-Za-z])FIXME(?![A-Za-z])" ->
            Pattern(<<"F", "I", "X", "M", "E">>, TRUE)
      [] src = "<\\.\\.\\.>" -> Pattern(<<"<", ".", ".", ".", ">">>, FALSE)
      [] src = "ZZZ" -> Pattern(<<"Z", "Z", "Z">>, FALSE)

\* the literal alone, whatever stands around it
LiteralFoundAt(pat, line, p) == HasAt(line, p, pat.lit)

PatternMatchesAt(pat, line, p) ==
    /\ HasAt(line, p, pat.lit)
    /\ pat.guarded =>
          /\ (p = 1 \/ line[p - 1] \notin AsciiLetters)
          /\ (p + Len(pat.lit) > Len(line) \/ line[p + Len(pat.lit)] \notin AsciiLetters)

\* re.compile("|".join(patterns)).finditer(line): the matched texts, left to
\* right; at a position the first alternative that matches wins
RECURSIVE PlaceholderMatches(_, _, _)
PlaceholderMatches(patterns, line, p) ==
    IF p > Len(line) THEN <<>>
    ELSE LET hits == {i \in 1..Len(patterns) :
                         PatternMatchesAt(CompilePattern(patterns[i]), line, p)}
         IN IF hits = {} THEN PlaceholderMatches(patterns, line, p + 1)
            ELSE LET first == CHOOSE i \in hits : \A j \in hits : i <= j
                     lit == CompilePattern(patterns[first]).lit
                 IN <<lit>> \o PlaceholderMatches(patterns, line, p + Len(lit))

\* with no pattern at all the joined pattern is empty and matches the empty
\* text at every position of the line, the end included
LineMatches(patterns, line) ==
    IF patterns = <<>> THEN [i \in 1..(Len(line) + 1) |-> <<>>]
    ELSE PlaceholderMatches(patterns, line, 1)

PlaceholderIssue(lineno, matched) ==
    [kind |-> "placeholder found", id |-> matched, count |-> lineno]

RECURSIVE Check3Lines(_, _, _, _)
Check3Lines(patterns, lines, i, r) ==
    IF i > Len(lines) THEN r
    ELSE LET ms == LineMatches(patterns, lines[i]) IN
         Check3Lines(patterns, lines, i + 1,
             FailAll(r, [j \in 1..Len(ms) |-> PlaceholderIssue(i, ms[j])], 1))

\* check_3_placeholders(rfc) with PLACEHOLDER_PATTERN compiled from patterns
Check3With(rfc, patterns) ==
    Check3Lines(patterns, SplitLines(rfc, 1, <<>>), 1,
                CheckResult("3. Placeholder residuals", "hard"))

check_3_placeholders(rfc, consts) == Check3With(rfc, consts.PLACEHOLDER_PATTERNS)

(***************************************************************************)
(* main                                                                    *)
(***************************************************************************)
\* the names the 17 checks give their CheckResult
CheckTitles ==
    <<"1. Structure & template consistency", "2. ID integrity & references",
      "3. Placeholder residuals", "4. Expression rules", "5. Readability",
      "6. SCN category coverage", "7. Evidence cross-check",
      "8. Strictness visibility", "9. Trigger declarations",
      "10. HR->SCN binding", "11. DEC alternatives", "12. Must-pass validity",
      "13. Coverage matrix", "14. Section non-empty",
      "15. Diagram-text pairing", "16. Unresolved format", "17. Orphan SCN">>

\* the checks whose bodies are not modelled: what they find in the document
\* is given by the set of the checks the document fails (hard) or draws a
\* warning from (soft)
FoundIssue == [kind |-> "issue", id |-> <<>>, count |-> 0]

OtherCheck(title, kind, findings) ==
    IF title \in findings
    THEN IF kind = "hard" THEN fail(CheckResult(title, kind), FoundIssue)
         ELSE warn(CheckResult(title, kind), FoundIssue)
    ELSE CheckResult(title, kind)

\* the list "hard_results = [check_1_structure(...), ..., check_9_triggers(rfc)]"
AlwaysOnResults(rfc, consts, findings) ==
    <<OtherCheck(CheckTitles[1], "hard", findings),
      check_2_id_integrity(rfc),
      check_3_placeholders(rfc, consts),
      OtherCheck(CheckTitles[4], "hard", findings),
      OtherCheck(CheckTitles[5], "hard", findings),
      OtherCheck(CheckTitles[6], "hard", findings),
      OtherCheck(CheckTitles[7], "hard", findings),
      OtherCheck(CheckTitles[8], "hard", findings),
      OtherCheck(CheckTitles[9], "hard", findings)>>

\* bool(x) for the value of "enabled"
Truthy(h, item) ==
    CASE item.t = "bool" -> item.s = "true"
      [] item.t = "null" -> FALSE
      [] item.t = "num" -> item.s # "0"
      [] item.t = "str" -> item.s # ""
      [] item.t = "ref" -> Len(h[item.n].items) > 0

IsDict(h, item) == item.t = "ref" /\ h[item.n].t = "dict"

\* cfg.get(section, {}): the section dict, or Null for the default {}
SectionOf(h, cfg, section) == DictGetOr(h[cfg.n], section, Null)

\* .get raises AttributeError on a section or an entry that is no dict
SectionUsable(h, sec, names) ==
    sec = Null \/
    (/\ IsDict(h, sec)
     /\ \A nm \in SeqSet(names) :
           LET e == DictGetOr(h[sec.n], nm, Null) IN e = Null \/ IsDict(h, e))

AlwaysEnabled(h, sec, name) == TRUE

\* checks_cfg.get(check_name, {}).get("enabled", True)
Enabled(h, sec, name) ==
    IF sec = Null THEN TRUE
    ELSE LET e == DictGetOr(h[sec.n], name, Null) IN
         IF e = Null THEN TRUE
         ELSE Truthy(h, DictGetOr(h[e.n], "enabled", Bool(TRUE)))

\* the loop over configurable_hard or configurable_soft: the results of the
\* enabled checks, in order; first is the number of the first check
RECURSIVE ConfigurableResults(_, _, _, _, _, _, _)
ConfigurableResults(h, sec, names, first, kind, findings, i) ==
    IF i > Len(names) THEN <<>>
    ELSE (IF Enabled(h, sec, names[i])
          THEN <<OtherCheck(CheckTitles[first + i - 1], kind, findings)>>
          ELSE <<>>)
         \o ConfigurableResults(h, sec, names, first, kind, findings, i + 1)

(***************************************************************************)
(* str.lower(), the operator "in" on str, re.IGNORECASE on a literal       *)
(***************************************************************************)
UpperSeq ==
    <<"A", "B", "C", "D", "E", "F", "G", "H", "I", "J", "K", "L", "M",
      "N", "O", "P", "Q", "R", "S", "T", "U", "V", "W", "X", "Y", "Z">>
LowerSeq ==
    <<"a", "b", "c", "d", "e", "f", "g", "h", "i", "j", "k", "l", "m",
      "n", "o", "p", "q", "r", "s", "t", "u", "v", "w", "x", "y", "z">>

LowerChar(c) ==
    IF c \in UpperChars THEN LowerSeq[CHOOSE i \in 1..Len(UpperSeq) : UpperSeq[i] = c]
    ELSE c

Lower(s) == [i \in 1..Len(s) |-> LowerChar(s[i])]

\* lit in s
Contains(s, lit) == \E p \in 1..(Len(s) + 1) : HasAt(s, p, lit)

\* the pattern pat, from its i-th element on, matches s at position p, with
\* re.IGNORECASE; an element is a literal character or ".?"
RECURSIVE PatAt(_, _, _, _)
PatAt(s, p, pat, i) ==
    IF i > Len(pat) THEN TRUE
    ELSE IF pat[i] = ".?"
    THEN \/ PatAt(s, p, pat, i + 1)
         \/ (p <= Len(s) /\ s[p] # "\n" /\ PatAt(s, p + 1, pat, i + 1))
    ELSE /\ p <= Len(s)
         /\ LowerChar(s[p]) = LowerChar(pat[i])
         /\ PatAt(s, p + 1, pat, i + 1)

\* re.search of an alternation of such patterns, with re.IGNORECASE
SearchAny(alts, s) ==
    \E k \in 1..Len(alts) : \E p \in 1..(Len(s) + 1) : PatAt(s, p, alts[k], 1)

\* '\n'.join(lines)
RECURSIVE JoinLines(_, _)
JoinLines(lines, i) ==
    IF i > Len(lines) THEN <<>>
    ELSE IF i = Len(lines) THEN lines[i]
    ELSE lines[i] \o <<"\n">> \o JoinLines(lines, i + 1)

(***************************************************************************)
(* _extract_section                                                        *)
(***************************************************************************)
MaxHeadingLevel == 6

NoHeading == [level |-> 0, title |-> <<>>]

\* re.match(r'^(#{1,6})\s+(.+)', stripped): the length of group 1 and
\* group 2, or NoHeading
HeadingMatch(stripped) ==
    LET h == RunEnd(stripped, 1, {"#"}) - 1
        t == RunEnd(stripped, h + 1, SpaceChars)
    IN IF h >= 1 /\ h <= MaxHeadingLevel /\ t > h + 1 /\ t <= Len(stripped)
       THEN [level |-> h, title |-> SubSeq(stripped, t, Len(stripped))]
       ELSE NoHeading

None == [none |-> TRUE, text |-> <<>>]
Some(s) == [none |-> FALSE, text |-> s]

\* the loop "for line in lines" from line i on; st is
\* [in_section, section_level, section_lines]
RECURSIVE SectionLoop(_, _, _, _)
SectionLoop(lines, heading_alts, i, st) ==
    IF i > Len(lines) THEN st
    ELSE LET stripped == Strip(lines[i])
             hm == HeadingMatch(stripped)
         IN IF hm # NoHeading
            THEN IF st.in_section
                 THEN IF hm.level <= st.section_level THEN st
                      ELSE SectionLoop(lines, heading_alts, i + 1,
                              [st EXCEPT !.section_lines = Append(@, stripped)])
                 ELSE IF SearchAny(heading_alts, hm.title)
                 THEN SectionLoop(lines, heading_alts, i + 1,
                         [in_section |-> TRUE, section_level |-> hm.level,
                          section_lines |-> Append(st.section_lines, stripped)])
                 ELSE SectionLoop(lines, heading_alts, i + 1, st)
            ELSE IF st.in_section
            THEN SectionLoop(lines, heading_alts, i + 1,
                    [st EXCEPT !.section_lines = Append(@, stripped)])
            ELSE SectionLoop(lines, heading_alts, i + 1, st)

\* ends a section at every heading, whatever its level
SectionToNextHeading(rfc, heading_alts) ==
    LET lines == SplitLines(rfc, 1, <<>>)
        Hit(i) == LET hm == HeadingMatch(Strip(lines[i])) IN
                  hm # NoHeading /\ SearchAny(heading_alts, hm.title)
        hits == {i \in 1..Len(lines) : Hit(i)}
    IN IF hits = {} THEN None
       ELSE LET first == CHOOSE i \in hits : \A j \in hits : i <= j
                ends == {j \in (first + 1)..Len(lines) :
                            HeadingMatch(Strip(lines[j])) # NoHeading}
                last == IF ends = {} THEN Len(lines)
                        ELSE (CHOOSE j \in ends : \A k \in ends : j <= k) - 1
            IN Some(JoinLines([k \in 1..(last - first + 1) |->
                                  Strip(lines[first + k - 1])], 1))

\* _extract_section(rfc, heading_pattern), heading_pattern being an
\* alternation of the literals heading_alts
_extract_section(rfc, heading_alts) ==
    LET st == SectionLoop(SplitLines(rfc, 1, <<>>), heading_alts, 1,
                  [in_section |-> FALSE, section_level |-> 0, section_lines |-> <<>>])
    IN IF st.section_lines # <<>> THEN Some(JoinLines(st.section_lines, 1)) ELSE None

(***************************************************************************)
(* check_8_strictness.  CJK characters are spelled zh_...: zh_yan zh_ge    *)
(* zh_du is the word for strictness, zh_sheng zh_ji the word for upgrade,  *)
(* zh_jue zh_se the word for role, zh_ge4 the measure word, zh_rparen and  *)
(* zh_colon the full-width ) and :.                                        *)
(***************************************************************************)
\* lit, which is lower-case, stands at position p of s.lower()
HasAtI(s, p, lit) ==
    /\ p >= 1
    /\ p + Len(lit) - 1 <= Len(s)
    /\ \A i \in 1..Len(lit) : LowerChar(s[p + i - 1]) = lit[i]

\* lit in s.lower()
ContainsI(s, lit) == \E p \in 1..(Len(s) + 1) : HasAtI(s, p, lit)

StrictnessWord == <<"s", "t", "r", "i", "c", "t", "n", "e", "s", "s">>
StrictnessWordZh == <<"zh_yan", "zh_ge", "zh_du">>
UpgradeWord == <<"u", "p", "g", "r", "a", "d", "e">>
UpgradeWordZh == <<"zh_sheng", "zh_ji">>

\* the alternation (light|standard|full|L[123]), lower-cased, in its order
LevelNames ==
    <<<<"l", "i", "g", "h", "t">>, <<"s", "t", "a", "n", "d", "a", "r", "d">>,
      <<"f", "u", "l", "l">>, <<"l", "1">>, <<"l", "2">>, <<"l", "3">>>>

\* level_map
LevelOf(name) ==
    CASE name = LevelNames[1] \/ name = LevelNames[4] -> "L1"
      [] name = LevelNames[2] \/ name = LevelNames[5] -> "L2"
      [] name = LevelNames[3] \/ name = LevelNames[6] -> "L3"

\* the name the alternation matches at position p, with re.IGNORECASE, or <<>>
ValueAt(s, p) ==
    LET hits == {k \in 1..Len(LevelNames) : HasAtI(s, p, LevelNames[k])}
    IN IF hits = {} THEN <<>>
       ELSE LevelNames[CHOOSE k \in hits : \A j \in hits : k <= j]

\* the character class [）)：:\s]
FieldSeparators == {"zh_rparen", ")", "zh_colon", ":"} \cup SpaceChars

\* where the line that holds position p ends (the position of its newline,
\* or one past the end of s)
RECURSIVE LineEnd(_, _)
LineEnd(s, p) == IF p <= Len(s) /\ s[p] # "\n" THEN LineEnd(s, p + 1) ELSE p

Min(a, b) == IF a <= b THEN a ELSE b
Max(a, b) == IF a >= b THEN a ELSE b

\* group 1 of re.search(r'strictness[）)：:\s]*(light|standard|full|L[123])',
\* rfc, re.IGNORECASE), lower-cased, or <<>>
StrictnessDirect(rfc) ==
    LET After(p) == RunEnd(rfc, p + Len(StrictnessWord), FieldSeparators)
        hits == {p \in 1..Len(rfc) :
                    HasAtI(rfc, p, StrictnessWord) /\ ValueAt(rfc, After(p)) # <<>>}
    IN IF hits = {} THEN <<>>
       ELSE ValueAt(rfc, After(CHOOSE p \in hits : \A q \in hits : p <= q))

\* the longest gap the second pattern lets between the field name and the value
MaxValueGap == 20

\* group 1 of re.search(r'(?:strictness|严格度)[^\n]{0,20}(light|standard|
\* full|L[123])', rfc, re.IGNORECASE), lower-cased, or <<>>: at the leftmost
\* field name that has a value within reach, the farthest such value
StrictnessNearby(rfc) ==
    LET NameEnd(p) == IF HasAtI(rfc, p, StrictnessWord) THEN p + Len(StrictnessWord)
                      ELSE IF HasAt(rfc, p, StrictnessWordZh) THEN p + Len(StrictnessWordZh)
                      ELSE 0
        Gaps(p) == {k \in 0..Min(MaxValueGap, LineEnd(rfc, NameEnd(p)) - NameEnd(p)) :
                       ValueAt(rfc, NameEnd(p) + k) # <<>>}
        hits == {p \in 1..Len(rfc) : NameEnd(p) # 0 /\ Gaps(p) # {}}
    IN IF hits = {} THEN <<>>
       ELSE LET p == CHOOSE x \in hits : \A q \in hits : x <= q
                k == CHOOSE x \in Gaps(p) : \A j \in Gaps(p) : x >= j
            IN ValueAt(rfc, NameEnd(p) + k)

\* r'5\s*个?\s*角色' and r'5\s*roles?' with re.IGNORECASE
FiveRoles(rfc) ==
    \E p \in 1..Len(rfc) :
        /\ rfc[p] = "5"
        /\ LET a == RunEnd(rfc, p + 1, SpaceChars) IN
           \/ HasAtI(rfc, a, <<"r", "o", "l", "e">>)
           \/ HasAt(rfc, a, <<"zh_jue", "zh_se">>)
           \/ /\ HasAt(rfc, a, <<"zh_ge4">>)
              /\ HasAt(rfc, RunEnd(rfc, a + 1, SpaceChars), <<"zh_jue", "zh_se">>)

\* has_upgrade
HasUpgrade(rfc) ==
    \/ ContainsI(rfc, UpgradeWordZh)
    \/ ContainsI(rfc, UpgradeWord)
    \/ ContainsI(rfc, <<"5", "-", "r", "o", "l", "e">>)
    \/ FiveRoles(rfc)

\* re.search(r'DEC-\d{3,}.*升级|DEC-\d{3,}.*upgrade', rfc, re.IGNORECASE)
UpgradeDecision(rfc) ==
    \E p \in 1..Len(rfc) :
        /\ HasAtI(rfc, p, <<"d", "e", "c", "-">>)
        /\ RunEnd(rfc, p + 4, DigitChars) >= p + 4 + MinIdDigits
        /\ \E w \in (p + 4 + MinIdDigits)..LineEnd(rfc, p) :
              HasAtI(rfc, w, UpgradeWord) \/ HasAt(rfc, w, UpgradeWordZh)

\* group 1 of strictness_match in check 8, lower-cased: the first pattern,
\* then the second; <<>> when neither matches
StrictnessMatch8(rfc) ==
    IF StrictnessDirect(rfc) # <<>> THEN StrictnessDirect(rfc)
    ELSE StrictnessNearby(rfc)

check_8_strictness(rfc) ==
    LET r == CheckResult("8. Strictness visibility", "hard")
        name == StrictnessMatch8(rfc)
    IN IF ~ContainsI(rfc, StrictnessWord)
       THEN fail(r, [kind |-> "No strictness field", id |-> <<>>, count |-> 0])
       ELSE IF name = <<>>
       THEN fail(r, [kind |-> "No valid strictness value", id |-> <<>>, count |-> 0])
       ELSE IF LevelOf(name) = "L2" /\ HasUpgrade(rfc) /\ ~UpgradeDecision(rfc)
       THEN fail(r, [kind |-> "No DEC recording upgrade", id |-> <<>>, count |-> 0])
       ELSE r

(***************************************************************************)
(* check_13_coverage_matrix.  zh_yan4 zh_shou is the CJK word for          *)
(* acceptance, zh_fu zh_gai zh_ju zh_zhen for coverage matrix, zh_feng     *)
(* zh_xian for risk, zh_wei zh_du for dimension, zh_lu zh_jing for path.   *)
(***************************************************************************)
\* r'(?:11|验收)'
AcceptancePattern == << <<"1", "1">>, <<"zh_yan4", "zh_shou">> >>

\* r'(?:覆盖矩阵|coverage.?matrix|SCN.?覆盖)'
CoveragePattern ==
    << <<"zh_fu", "zh_gai", "zh_ju", "zh_zhen">>,
       <<"c", "o", "v", "e", "r", "a", "g", "e", ".?", "m", "a", "t", "r", "i", "x">>,
       <<"S", "C", "N", ".?", "zh_fu", "zh_gai">> >>

\* group 1 of re.search(r'(?:strictness|严格度)[^L\n]{0,20}(L[123])', rfc,
\* re.IGNORECASE), or <<>>
LevelAfterName(rfc) ==
    LET NameEnd(p) == IF HasAtI(rfc, p, StrictnessWord) THEN p + Len(StrictnessWord)
                      ELSE IF HasAt(rfc, p, StrictnessWordZh) THEN p + Len(StrictnessWordZh)
                      ELSE 0
        Stop(p) == RunEnd(rfc, NameEnd(p), {c \in SeqSet(rfc) : c \notin {"L", "l", "\n"}})
        Hit(p) == /\ NameEnd(p) # 0
                  /\ Stop(p) - NameEnd(p) <= MaxValueGap
                  /\ HasAtI(rfc, Stop(p), <<"l">>)
                  /\ Stop(p) + 1 <= Len(rfc)
                  /\ rfc[Stop(p) + 1] \in {"1", "2", "3"}
        hits == {p \in 1..Len(rfc) : Hit(p)}
    IN IF hits = {} THEN <<>>
       ELSE LET p == CHOOSE x \in hits : \A q \in hits : x <= q
            IN SubSeq(rfc, Stop(p), Stop(p) + 1)

\* group 1 of re.search(r'strictness[）)：:\s]*(Standard|Full|Light)', rfc,
\* re.IGNORECASE), or <<>>
LevelWord(rfc) ==
    LET Words == {LevelNames[1], LevelNames[2], LevelNames[3]}
        After(p) == RunEnd(rfc, p + Len(StrictnessWord), FieldSeparators)
        Hit(p) == HasAtI(rfc, p, StrictnessWord) /\ ValueAt(rfc, After(p)) \in Words
        hits == {p \in 1..Len(rfc) : Hit(p)}
    IN IF hits = {} THEN <<>>
       ELSE LET p == CHOOSE x \in hits : \A q \in hits : x <= q
            IN SubSeq(rfc, After(p), After(p) + Len(ValueAt(rfc, After(p))) - 1)

\* a line re.findall(r'^\s*\|.*SCN-\d{3,}.*\|', ..., re.MULTILINE) finds
IsScnTableRow(line) ==
    LET q == RunEnd(line, 1, SpaceChars) IN
    /\ q <= Len(line) /\ line[q] = "|"
    /\ \E p \in (q + 1)..Len(line) :
          /\ HasAt(line, p, <<"S", "C", "N", "-">>)
          /\ RunEnd(line, p + 4, DigitChars) >= p + 4 + MinIdDigits
          /\ \E w \in (p + 4 + MinIdDigits)..Len(line) : line[w] = "|"

\* risk_keywords
RiskKeywords ==
    {<<"zh_feng", "zh_xian">>, <<"zh_wei", "zh_du">>, <<"r", "i", "s", "k">>,
     <<"d", "i", "m", "e", "n", "s", "i", "o", "n">>,
     <<"c", "a", "t", "e", "g", "o", "r", "y">>, <<"zh_lu", "zh_jing">>,
     <<"p", "a", "t", "h">>}

\* any(kw in lower for kw in risk_keywords) and 'SCN-' in line
IsRiskScnLine(line) ==
    /\ \E kw \in RiskKeywords : ContainsI(line, kw)
    /\ Contains(line, <<"S", "C", "N", "-">>)

\* (section_11 or '') + '\n' + (coverage_section or '')
SearchText(rfc) ==
    _extract_section(rfc, AcceptancePattern).text \o <<"\n">>
    \o _extract_section(rfc, CoveragePattern).text

\* the levels that require a coverage matrix: not level.upper() in ('L1', 'LIGHT')
RequiresMatrix(level) ==
    Lower(level) \notin {LevelNames[4], LevelNames[1]}

\* group 1 of strictness_match in check 13: the first pattern, then the
\* second; <<>> when neither matches
StrictnessMatch13(rfc) ==
    IF LevelAfterName(rfc) # <<>> THEN LevelAfterName(rfc) ELSE LevelWord(rfc)

check_13_coverage_matrix(rfc) ==
    LET r == CheckResult("13. Coverage matrix", "hard")
        level == StrictnessMatch13(rfc)
        lines == SplitLines(SearchText(rfc), 1, <<>>)
    IN IF level = <<>> THEN r
       ELSE IF ~RequiresMatrix(level) THEN r
       ELSE IF \E i \in 1..Len(lines) : IsScnTableRow(lines[i]) THEN r
       ELSE IF \E i \in 1..Len(lines) : IsRiskScnLine(lines[i]) THEN r
       ELSE fail(r, [kind |-> "No coverage matrix", id |-> level, count |-> 0])

(***************************************************************************)
(* check_9_triggers.  zh_chu zh_fa zh_qi is the CJK word for trigger,      *)
(* zh_men zh_jin zh_chu zh_fa for gate trigger, zh_wu for none.            *)
(***************************************************************************)
\* (?:触发器|trigger|门禁触发|Gate Trigger)
TriggerKeywords ==
    {<<"zh_chu", "zh_fa", "zh_qi">>, <<"t", "r", "i", "g", "g", "e", "r">>,
     <<"zh_men", "zh_jin", "zh_chu", "zh_fa">>,
     <<"g", "a", "t", "e", " ", "t", "r", "i", "g", "g", "e", "r">>}

MaxStopHashes == 3

\* the least element of a non-empty set of positions
First(ps) == CHOOSE x \in ps : \A y \in ps : x <= y

\* rfc[x] starts '\n#{1,3}\s'
StopsSection(rfc, x) ==
    /\ x <= Len(rfc) /\ rfc[x] = "\n"
    /\ \E n \in 1..MaxStopHashes :
          /\ x + n + 1 <= Len(rfc)
          /\ \A k \in 1..n : rfc[x + k] = "#"
          /\ rfc[x + n + 1] \in SpaceChars

\* group 1 of re.search(r'(?:#{1,4}\s*.*?(?:触发器|trigger|门禁触发|Gate
\* Trigger).*?)\n(.*?)(?=\n#{1,3}\s|\Z)', rfc, re.DOTALL | re.IGNORECASE),
\* or None: with re.DOTALL the title part runs from the first '#' of the
\* document over line ends to the first keyword, and on to the next line end
TriggerSection(rfc) ==
    LET hashes == {p \in 1..Len(rfc) : rfc[p] = "#"}
        kws == {k \in 1..Len(rfc) :
                   /\ k > First(hashes)
                   /\ \E kw \in TriggerKeywords : HasAtI(rfc, k, kw)}
        nls == {x \in 1..Len(rfc) : x > First(kws) /\ rfc[x] = "\n"}
        start == First(nls) + 1
        stops == {x \in start..Len(rfc) : StopsSection(rfc, x)}
    IN IF hashes = {} THEN None
       ELSE IF kws = {} THEN None
       ELSE IF nls = {} THEN None
       ELSE Some(SubSeq(rfc, start, IF stops = {} THEN Len(rfc) ELSE First(stops) - 1))

\* re.search(r'\bYES\b', stripped, re.IGNORECASE), and the same for NO
HasWord(stripped, word) ==
    \E p \in 1..Len(stripped) :
        /\ HasAtI(stripped, p, word)
        /\ IsBoundary(stripped, p)
        /\ IsBoundary(stripped, p + Len(word))

\* search_window: the line and the next 2 lines, trimmed and joined by ' '
SearchWindow(trigger_lines, i) ==
    LET Next(k) == IF i + k <= Len(trigger_lines)
                   THEN <<" ">> \o Strip(trigger_lines[i + k]) ELSE <<>>
    IN Strip(trigger_lines[i]) \o Next(1) \o Next(2)

\* re.search(r'Links?\s*[:：]\s*(.+?)(?:\||$)', w, re.IGNORECASE): group 1,
\* trimmed, or None
LinksMatch(w) ==
    LET Name(p) == IF HasAtI(w, p + 4, <<"s">>) THEN p + 5 ELSE p + 4
        Colon(p) == RunEnd(w, Name(p), SpaceChars)
        Value(p) == RunEnd(w, Colon(p) + 1, SpaceChars)
        Hit(p) == /\ HasAtI(w, p, <<"l", "i", "n", "k">>)
                  /\ Colon(p) <= Len(w)
                  /\ w[Colon(p)] \in {":", "zh_colon"}
                  /\ (Value(p) <= Len(w) \/ Value(p) > Colon(p) + 1)
        hits == {p \in 1..Len(w) : Hit(p)}
        p == First(hits)
        bars == {x \in (Value(p) + 1)..Len(w) : w[x] = "|"}
    IN IF hits = {} THEN None
       ELSE IF Value(p) > Len(w) THEN Some(<<>>)
       ELSE Some(Strip(SubSeq(w, Value(p),
                              IF bars = {} THEN Len(w) ELSE First(bars) - 1)))

\* ('-', 'N/A', 'n/a', '—', '无', '')
EmptyLinks ==
    {<<"-">>, <<"N", "/", "A">>, <<"n", "/", "a">>, <<"zh_dash">>, <<"zh_wu">>, <<>>}

\* what the loop body does with the window of a YES entry: the issue it
\* records, or NoIssue
NoIssue == [kind |-> "", id |-> <<>>, count |-> 0]

LinksIssue(window, defined_ids) ==
    LET links_match == LinksMatch(window)
        links_content == links_match.text
        linked_ids == LineIds(links_content)
    IN IF links_match.none
       THEN [kind |-> "YES trigger missing Links", id |-> <<>>, count |-> 0]
       ELSE IF links_content \in EmptyLinks
       THEN [kind |-> "YES trigger has empty Links", id |-> <<>>, count |-> 0]
       ELSE IF linked_ids = {}
       THEN [kind |-> "YES trigger Links contains no valid IDs", id |-> <<>>, count |-> 0]
       ELSE IF linked_ids \ defined_ids # {}
       THEN [kind |-> "YES trigger Links references undefined IDs", id |-> <<>>,
             count |-> Cardinality(linked_ids \ defined_ids)]
       ELSE NoIssue

\* the loop "for i, line in enumerate(trigger_lines)" from line i on, and
\* the test that follows it; found tells whether a YES or NO entry was seen
RECURSIVE TriggerLoop(_, _, _, _, _)
TriggerLoop(trigger_lines, defined_ids, i, r, found) ==
    IF i > Len(trigger_lines)
    THEN IF found THEN r
         ELSE fail(r, [kind |-> "Trigger section has no YES/NO declarations",
                       id |-> <<>>, count |-> 0])
    ELSE LET stripped == Strip(trigger_lines[i])
             is_yes == HasWord(stripped, <<"y", "e", "s">>)
             is_no == HasWord(stripped, <<"n", "o">>)
             issue == LinksIssue(SearchWindow(trigger_lines, i), defined_ids)
         IN IF stripped = <<>> \/ (~is_yes /\ ~is_no)
            THEN TriggerLoop(trigger_lines, defined_ids, i + 1, r, found)
            ELSE IF is_no
            THEN TriggerLoop(trigger_lines, defined_ids, i + 1, r, TRUE)
            ELSE TriggerLoop(trigger_lines, defined_ids, i + 1,
                             IF issue = NoIssue THEN r ELSE fail(r, issue), TRUE)

check_9_triggers(rfc) ==
    LET r == CheckResult("9. Trigger declarations", "hard")
        trigger_section == TriggerSection(rfc)
    IN IF trigger_section.none
       THEN fail(r, [kind |-> "No trigger declaration section found",
                     id |-> <<>>, count |-> 0])
       ELSE TriggerLoop(SplitLines(trigger_section.text, 1, <<>>),
                        extract_defined_ids(rfc).defined, 1, r, FALSE)

(***************************************************************************)
(* check_7_evidence.  An evidence store is a record with the sequence      *)
(* items; an item has evd_id, links_to (a list of links; the code turns a  *)
(* single string into a one-element list) and truncated.  The CJK words of *)
(* the two hard-assertion patterns are spelled zh_..., and the character   *)
(* that opens a code fence is spelled backtick.                            *)
(***************************************************************************)
EvdWindow == 10
ImplicitWindow == 5
MaxMissingShown == 5

\* the concatenation of a sequence of sequences
RECURSIVE Concat(_)
Concat(ss) == IF ss = <<>> THEN <<>> ELSE Head(ss) \o Concat(Tail(ss))

\* re.finditer(r'EVD-\d{3,}', s): the set of m.group()
EvdRefs(s) ==
    {SubSeq(s, p, RunEnd(s, p + 4, DigitChars) - 1) :
        p \in {x \in 1..Len(s) :
                  /\ HasAt(s, x, <<"E", "V", "D", "-">>)
                  /\ RunEnd(s, x + 4, DigitChars) >= x + 4 + MinIdDigits}}

\* the r.fail calls of the loop over evidence items: one for each link of a
\* truncated item that contains "HR-" or "REQ-", unless the document holds
\* the word unresolved
TruncatedIssues(rfc, evidence_items) ==
    LET OfItem(item) ==
            IF item.truncated /\ item.links_to # <<>>
               /\ ~ContainsI(rfc, <<"u", "n", "r", "e", "s", "o", "l", "v", "e", "d">>)
            THEN LET hard == SelectSeq(item.links_to,
                                 LAMBDA link : \/ Contains(link, <<"H", "R", "-">>)
                                               \/ Contains(link, <<"R", "E", "Q", "-">>))
                 IN [k \in 1..Len(hard) |->
                        [kind |-> "Truncated evidence supports hard assertion",
                         id |-> item.evd_id, count |-> 0]]
            ELSE <<>>
    IN Concat([k \in 1..Len(evidence_items) |-> OfItem(evidence_items[k])])

\* Part A: the references missing from the store, sorted, the first 5
MissingIssues(rfc, evidence_items) ==
    LET evd_ids_in_json == {evidence_items[k].evd_id : k \in 1..Len(evidence_items)}
        missing_evd == EvdRefs(rfc) \ evd_ids_in_json
        shown == Take(Sorted(missing_evd), MaxMissingShown)
    IN IF evidence_items = <<>> THEN <<>>
       ELSE [k \in 1..Len(shown) |->
                [kind |-> "EVD referenced in rfc.md but missing in evidence.json",
                 id |-> shown[k], count |-> 0]]

\* hr_definitions: for each line, the ID_PATTERN matches of kind HR and then
\* the DOMAIN_HR_PATTERN matches, as (line number, hr_id)
HrDefinitions(lines) ==
    LET OfLine(i) ==
            LET stripped == Strip(lines[i])
                generic == SelectSeq(FindIter("ID_PATTERN", stripped, 1),
                                     LAMBDA m : m.g1 = <<"H", "R">>)
                domain == FindIter("DOMAIN_HR_PATTERN", stripped, 1)
            IN [k \in 1..Len(generic) |-> [line |-> i, hr_id |-> GenericId(generic[k])]]
               \o [k \in 1..Len(domain) |-> [line |-> i, hr_id |-> DomainId(domain[k])]]
    IN Concat([i \in 1..Len(lines) |-> OfLine(i)])

\* evd_line_pattern.search of the lines at most w away from line i
EvdNearby(lines, i, w) ==
    \E j \in 1..Len(lines) : /\ j >= i - w /\ j <= i + w
                             /\ EvdRefs(lines[j]) # {}

\* any(hr_id in str(link) for link in links) for some item
EvdLinked(hr_id, evidence_items) ==
    \E k \in 1..Len(evidence_items) :
        \E n \in 1..Len(evidence_items[k].links_to) :
            Contains(evidence_items[k].links_to[n], hr_id)

\* Part B: the hard rules with neither an EVD nearby nor a link
UnlinkedIssues(lines, evidence_items) ==
    LET unlinked == SelectSeq(HrDefinitions(lines),
                        LAMBDA d : /\ ~EvdNearby(lines, d.line, EvdWindow)
                                   /\ ~EvdLinked(d.hr_id, evidence_items))
    IN [k \in 1..Len(unlinked) |->
           [kind |-> "Hard rule has no EVD reference nearby or linked",
            id |-> unlinked[k].hr_id, count |-> 0]]

\* HARD_ASSERTION_KEYWORDS
AssertionWords ==
    {<<"m", "u", "s", "t">>,
     <<"f", "o", "r", "b", "i", "d", "d", "e", "n">>,
     <<"n", "e", "v", "e", "r">>,
     <<"a", "l", "w", "a", "y", "s">>,
     <<"o", "n", "l", "y">>,
     <<"s", "h", "a", "l", "l", " ", "n", "o", "t">>}
AssertionWordsZh ==
    {<<"zh_bi", "zh_xu">>,
     <<"zh_jin", "zh_zhi">>,
     <<"zh_bu", "zh_de">>,
     <<"zh_jin3", "zh_yun", "zh_xu3">>,
     <<"zh_bu", "zh_ke">>}

\* HARD_ASSERTION_CONTEXT
ContextWords ==
    {<<"b", "o", "u", "n", "d", "a", "r", "y">>,
     <<"t", "r", "u", "s", "t">>,
     <<"p", "e", "r", "m", "i", "s", "s", "i", "o", "n">>,
     <<"a", "u", "t", "h">>,
     <<"s", "e", "c", "u", "r", "i", "t", "y">>,
     <<"l", "i", "m", "i", "t">>,
     <<"t", "h", "r", "e", "s", "h", "o", "l", "d">>,
     <<"t", "i", "m", "e", "o", "u", "t">>,
     <<"q", "u", "o", "t", "a">>}
ContextWordsZh ==
    {<<"zh_bian", "zh_jie">>,
     <<"zh_xin", "zh_ren">>,
     <<"zh_quan", "zh_xian4">>,
     <<"zh_an", "zh_quan2">>,
     <<"zh_shang", "zh_xian4">>,
     <<"zh_yu", "zh_zhi2">>,
     <<"zh_chao", "zh_shi">>,
     <<"zh_pei", "zh_e">>}

\* pattern.search(stripped) for either pattern: one of the words between
\* word boundaries, case-insensitively, or one of the CJK words
SearchWords(stripped, words, words_zh) ==
    \/ \E w \in words : HasWord(stripped, w)
    \/ \E w \in words_zh : Contains(stripped, w)

\* Part B.2: implicit_hard_without_evd
ImplicitWithoutEvd(lines) ==
    LET hr_line_nums == {d.line : d \in SeqRange(HrDefinitions(lines))}
        Implicit(i) ==
            LET stripped == Strip(lines[i]) IN
            /\ i \notin hr_line_nums
            /\ stripped # <<>>
            /\ ~StartsWith(stripped, <<"#">>)
            /\ ~StartsWith(stripped, <<"backtick", "backtick", "backtick">>)
            /\ SearchWords(stripped, AssertionWords, AssertionWordsZh)
            /\ SearchWords(stripped, ContextWords, ContextWordsZh)
    IN Cardinality({i \in 1..Len(lines) :
                       /\ Implicit(i)
                       /\ ~EvdNearby(lines, i, ImplicitWindow)
                       /\ \A ln \in hr_line_nums :
                             ~(i - ln <= ImplicitWindow /\ ln - i <= ImplicitWindow)})

\* the issue of Part B.2 records the number of implicit assertions without
\* evidence
check_7_evidence(rfc, evidence_store) ==
    LET r == CheckResult("7. Evidence cross-check", "hard")
        lines == SplitLines(rfc, 1, <<>>)
        n == ImplicitWithoutEvd(lines)
    IN FailAll(r, TruncatedIssues(rfc, evidence_store.items)
                  \o MissingIssues(rfc, evidence_store.items)
                  \o UnlinkedIssues(lines, evidence_store.items)
                  \o (IF n > 0
                      THEN <<[kind |-> "implicit hard assertion(s) lack EVD reference",
                              id |-> <<>>, count |-> n]>>
                      ELSE <<>>), 1)

\* An evidence item as json.load gives it: truncated is "absent", "null",
\* "true" or "false"; links_to is a record with t "absent", "null", "str" or
\* "list" and with v the links it holds.  ItemOf is the item as the loops
\* over its links read it.
ItemOf(raw) ==
    [evd_id |-> raw.evd_id, links_to |-> raw.links_to.v, truncated |-> raw.truncated = "true"]

StoreOf(raw_store) ==
    [items |-> [k \in 1..Len(raw_store.items) |-> ItemOf(raw_store.items[k])]]

\* Part B, for one hard rule: the loop over the items takes
\* item.get("links_to", []) and iterates it, until an item links the rule;
\* None, the value of a null links_to, is not iterable
LinksRaise(hr_id, raw_items) ==
    \E k \in 1..Len(raw_items) :
        /\ raw_items[k].links_to.t = "null"
        /\ \A j \in 1..(k - 1) : ~EvdLinked(hr_id, <<ItemOf(raw_items[j])>>)

\* the call check_7_evidence(rfc, raw_store) ends with a TypeError
check_7_raises(rfc, raw_store) ==
    \E d \in SeqRange(HrDefinitions(SplitLines(rfc, 1, <<>>))) :
        LinksRaise(d.hr_id, raw_store.items)

(***************************************************************************)
(* check_10_hr_scn_binding                                                 *)
(***************************************************************************)
\* re.match(r'(?:[A-Z]+-)?HR-\d{3,}$', did)
IsHrId(did) ==
    LET a == RunEnd(did, 1, UpperChars)
        b == IF a > 1 /\ HasAt(did, a, <<"-", "H", "R", "-">>) THEN a + 1 ELSE 1
        d == b + 3
    IN /\ HasAt(did, b, <<"H", "R", "-">>)
       /\ RunEnd(did, d, DigitChars) >= d + MinIdDigits
       /\ RunEnd(did, d, DigitChars) > Len(did)

\* group 1 of re.match(r'(SCN-\d{3,})', stripped), or <<>>
ScnMatch(stripped) ==
    IF /\ HasAt(stripped, 1, <<"S", "C", "N", "-">>)
       /\ RunEnd(stripped, 5, DigitChars) >= 5 + MinIdDigits
    THEN SubSeq(stripped, 1, RunEnd(stripped, 5, DigitChars) - 1)
    ELSE <<>>

\* stripped.startswith('#') or re.match(r'(HR|DEC|REQ|CHG)-\d{3,}', stripped)
EndsScnBlock(stripped) ==
    \/ StartsWith(stripped, <<"#">>)
    \/ \E k \in {<<"H", "R">>, <<"D", "E", "C">>, <<"R", "E", "Q">>, <<"C", "H", "G">>} :
          /\ StartsWith(stripped, k \o <<"-">>)
          /\ RunEnd(stripped, Len(k) + 2, DigitChars) >= Len(k) + 2 + MinIdDigits

\* scn_blocks[current_scn] = '\n'.join(current_lines): an assignment to a
\* dict, which replaces the text an earlier block stored under the same id
StoreBlock(scn_blocks, current_scn, current_lines) ==
    (current_scn :> JoinLines(current_lines, 1)) @@ scn_blocks

\* the loop "for line in lines" from line i on, and the statement after it;
\* current_scn is <<>> for None
RECURSIVE ScnBlocks(_, _, _, _, _)
ScnBlocks(lines, i, scn_blocks, current_scn, current_lines) ==
    IF i > Len(lines)
    THEN IF current_scn # <<>> THEN StoreBlock(scn_blocks, current_scn, current_lines)
         ELSE scn_blocks
    ELSE LET stripped == Strip(lines[i])
             scn_match == ScnMatch(stripped)
         IN IF scn_match # <<>>
            THEN ScnBlocks(lines, i + 1,
                           IF current_scn # <<>>
                           THEN StoreBlock(scn_blocks, current_scn, current_lines)
                           ELSE scn_blocks,
                           scn_match, <<stripped>>)
            ELSE IF current_scn = <<>>
            THEN ScnBlocks(lines, i + 1, scn_blocks, current_scn, current_lines)
            ELSE IF EndsScnBlock(stripped)
            THEN ScnBlocks(lines, i + 1,
                           StoreBlock(scn_blocks, current_scn, current_lines),
                           <<>>, <<>>)
            ELSE ScnBlocks(lines, i + 1, scn_blocks, current_scn,
                           Append(current_lines, stripped))

\* scn_referenced_ids
ScnReferencedIds(rfc) ==
    LET lines == SplitLines(rfc, 1, <<>>)
        scn_blocks == ScnBlocks(lines, 1, <<>>, <<>>, <<>>)
    IN UNION {extract_ids(scn_blocks[k]) : k \in DOMAIN scn_blocks}
       \cup UNION {extract_ids(lines[i]) :
                      i \in {j \in 1..Len(lines) : Contains(lines[j], <<"S", "C", "N", "-">>)}}

check_10_hr_scn_binding(rfc) ==
    LET r == CheckResult("10. HR->SCN binding", "hard")
        hr_ids == {did \in extract_defined_ids(rfc).defined : IsHrId(did)}
        unbound == SelectSeq(Sorted(hr_ids), LAMBDA hr_id : hr_id \notin ScnReferencedIds(rfc))
    IN IF hr_ids = {} THEN r
       ELSE FailAll(r, [k \in 1..Len(unbound) |->
                           [kind |-> "HR is not referenced by any SCN block",
                            id |-> unbound[k], count |-> 0]], 1)

(***************************************************************************)
(* The soft checks: check_15_diagram_text_pairing,                         *)
(* check_16_unresolved_format and check_17_orphan_scn.  A warning is a     *)
(* record like an issue; count holds the line number the message cites.    *)
(***************************************************************************)
ProseWindow == 10

MermaidFence == <<"backtick", "backtick", "backtick", "m", "e", "r", "m", "a", "i", "d">>
Fence == <<"backtick", "backtick", "backtick">>

\* l and not l.startswith('```') and not l.startswith('#'), l the trimmed line
IsProse(line) ==
    LET l == Strip(line) IN
    l # <<>> /\ ~StartsWith(l, Fence) /\ ~StartsWith(l, <<"#">>)

\* the loop "for i, line in enumerate(lines)" of check 15 from line i on;
\* mermaid_start is the line of the open block, 0 when in_mermaid is false
RECURSIVE MermaidLoop(_, _, _, _)
MermaidLoop(lines, i, mermaid_start, r) ==
    IF i > Len(lines) THEN r
    ELSE LET stripped == Strip(lines[i])
             has_text_before ==
                 \E j \in Max(1, mermaid_start - ProseWindow)..(mermaid_start - 1) :
                     IsProse(lines[j])
             has_text_after ==
                 \E j \in (i + 1)..Min(Len(lines), i + ProseWindow) : IsProse(lines[j])
         IN IF stripped = MermaidFence THEN MermaidLoop(lines, i + 1, i, r)
            ELSE IF mermaid_start # 0 /\ stripped = Fence
            THEN MermaidLoop(lines, i + 1, 0,
                     IF ~has_text_before /\ ~has_text_after
                     THEN warn(r, [kind |-> "Mermaid block has no prose text nearby",
                                   id |-> <<>>, count |-> mermaid_start])
                     ELSE r)
            ELSE MermaidLoop(lines, i + 1, mermaid_start, r)

check_15_diagram_text_pairing(rfc) ==
    MermaidLoop(SplitLines(rfc, 1, <<>>), 1, 0, CheckResult("15. Diagram-text pairing", "soft"))

\* r'(?:Hard[- ]?Unresolved|硬性未决|未决事项)', re.IGNORECASE
UnresolvedPattern ==
    <<<<"h", "a", "r", "d", "u", "n", "r", "e", "s", "o", "l", "v", "e", "d">>,
      <<"h", "a", "r", "d", "-", "u", "n", "r", "e", "s", "o", "l", "v", "e", "d">>,
      <<"h", "a", "r", "d", " ", "u", "n", "r", "e", "s", "o", "l", "v", "e", "d">>,
      <<"zh_ying", "zh_xing", "zh_wei4", "zh_jue2">>,
      <<"zh_wei4", "zh_jue2", "zh_shi4", "zh_xiang">>>>

\* r'(?:owner|负责人|action|行动|convergence|收敛|deadline|截止|DRI|assignee)',
\* re.IGNORECASE
OwnerActionKeywords ==
    <<<<"o", "w", "n", "e", "r">>,
      <<"zh_fu4", "zh_ze", "zh_ren2">>,
      <<"a", "c", "t", "i", "o", "n">>,
      <<"zh_xing2", "zh_dong">>,
      <<"c", "o", "n", "v", "e", "r", "g", "e", "n", "c", "e">>,
      <<"zh_shou", "zh_lian">>,
      <<"d", "e", "a", "d", "l", "i", "n", "e">>,
      <<"zh_jie2", "zh_zhi">>,
      <<"D", "R", "I">>,
      <<"a", "s", "s", "i", "g", "n", "e", "e">>>>

\* stripped.startswith('-') or stripped.startswith('*') or
\* re.match(r'^\d+\.', stripped)
IsListItem(stripped) ==
    \/ StartsWith(stripped, <<"-">>)
    \/ StartsWith(stripped, <<"*">>)
    \/ LET e == RunEnd(stripped, 1, DigitChars) IN
       e > 1 /\ e <= Len(stripped) /\ stripped[e] = "."

\* the loop "for i, line in enumerate(lines)" of check 16 from line i on:
\* the line numbers of unresolved_items
RECURSIVE UnresolvedItems(_, _, _)
UnresolvedItems(lines, i, in_unresolved) ==
    IF i > Len(lines) THEN <<>>
    ELSE LET stripped == Strip(lines[i]) IN
         IF SearchAny(UnresolvedPattern, stripped)
         THEN UnresolvedItems(lines, i + 1, TRUE)
         ELSE IF ~in_unresolved THEN UnresolvedItems(lines, i + 1, FALSE)
         ELSE IF StartsWith(stripped, <<"#">>) THEN UnresolvedItems(lines, i + 1, FALSE)
         ELSE IF IsListItem(stripped) THEN <<i>> \o UnresolvedItems(lines, i + 1, TRUE)
         ELSE UnresolvedItems(lines, i + 1, TRUE)

RECURSIVE WarnAll(_, _, _)
WarnAll(r, msgs, i) ==
    IF i > Len(msgs) THEN r ELSE WarnAll(warn(r, msgs[i]), msgs, i + 1)

check_16_unresolved_format(rfc) ==
    LET lines == SplitLines(rfc, 1, <<>>)
        lacking == SelectSeq(UnresolvedItems(lines, 1, FALSE),
                       LAMBDA n : ~SearchAny(OwnerActionKeywords, Strip(lines[n])))
    IN WarnAll(CheckResult("16. Unresolved format", "soft"),
               [k \in 1..Len(lacking) |->
                   [kind |-> "Unresolved item lacks owner/action/convergence keywords",
                    id |-> <<>>, count |-> lacking[k]]], 1)

\* re.finditer(r'SCN-\d{3,}', s): the set of m.group()
ScnRefs(s) ==
    {SubSeq(s, p, RunEnd(s, p + 4, DigitChars) - 1) :
        p \in {x \in 1..Len(s) :
                  /\ HasAt(s, x, <<"S", "C", "N", "-">>)
                  /\ RunEnd(s, x + 4, DigitChars) >= x + 4 + MinIdDigits}}

\* re.search(r'(?:[A-Z]+-)?HR-\d{3,}', stripped)
IsHrLine(stripped) ==
    \E p \in 1..Len(stripped) :
        /\ HasAt(stripped, p, <<"H", "R", "-">>)
        /\ RunEnd(stripped, p + 3, DigitChars) >= p + 3 + MinIdDigits

\* r'must[_-]?pass|必须通过', re.IGNORECASE
MustPassPattern ==
    <<<<"m", "u", "s", "t", "p", "a", "s", "s">>,
      <<"m", "u", "s", "t", "_", "p", "a", "s", "s">>,
      <<"m", "u", "s", "t", "-", "p", "a", "s", "s">>,
      <<"zh_bi", "zh_xu", "zh_tong", "zh_guo">>>>

\* r'(?:触发器|trigger|门禁触发|Gate Trigger)' as given to _extract_section
TriggerPattern ==
    <<<<"zh_chu", "zh_fa", "zh_qi">>,
      <<"t", "r", "i", "g", "g", "e", "r">>,
      <<"zh_men", "zh_jin", "zh_chu", "zh_fa">>,
      <<"G", "a", "t", "e", " ", "T", "r", "i", "g", "g", "e", "r">>>>

\* the loop over the lines of section 11 from line i on: must_pass_scns
RECURSIVE MustPassScns(_, _, _)
MustPassScns(lines, i, in_must_pass) ==
    IF i > Len(lines) THEN {}
    ELSE LET stripped == Strip(lines[i])
             now == in_must_pass \/ SearchAny(MustPassPattern, stripped)
         IN (IF now THEN ScnRefs(stripped) ELSE {}) \cup MustPassScns(lines, i + 1, now)

check_17_orphan_scn(rfc) ==
    LET r == CheckResult("17. Orphan SCN", "soft")
        defined_scns == {did \in extract_defined_ids(rfc).defined :
                            StartsWith(did, <<"S", "C", "N", "-">>)}
        lines == SplitLines(rfc, 1, <<>>)
        hr_referenced_scns ==
            UNION {ScnRefs(Strip(lines[i])) :
                      i \in {j \in 1..Len(lines) : IsHrLine(Strip(lines[j]))}}
        section_11 == _extract_section(rfc, AcceptancePattern)
        must_pass_scns ==
            IF section_11.none THEN {}
            ELSE MustPassScns(SplitLines(section_11.text, 1, <<>>), 1, FALSE)
        trigger_section == _extract_section(rfc, TriggerPattern)
        trigger_scns == IF trigger_section.none THEN {} ELSE ScnRefs(trigger_section.text)
        all_referenced == hr_referenced_scns \cup must_pass_scns \cup trigger_scns
        orphans == SelectSeq(Sorted(defined_scns), LAMBDA scn_id : scn_id \notin all_referenced)
    IN IF defined_scns = {} THEN r
       ELSE WarnAll(r, [k \in 1..Len(orphans) |->
                           [kind |-> "Orphan SCN", id |-> orphans[k], count |-> 0]], 1)

(***************************************************************************)
(* check_12_must_pass_validity.  zh_bi zh_xu zh_tong zh_guo and zh_bi      *)
(* zh_tong zh_guo are the CJK words for must pass.                         *)
(***************************************************************************)
\* r'must[_-]?pass|必须通过|必通过', re.IGNORECASE
MustPassPattern12 == MustPassPattern \o <<<<"zh_bi", "zh_tong", "zh_guo">>>>

\* the loop over the lines of section 11 from line i on: must_pass_text
RECURSIVE MustPassText(_, _, _, _)
MustPassText(lines, i, in_must_pass, must_pass_text) ==
    IF i > Len(lines) THEN must_pass_text
    ELSE LET stripped == Strip(lines[i]) IN
         IF SearchAny(MustPassPattern12, stripped)
         THEN MustPassText(lines, i + 1, TRUE, must_pass_text \o stripped \o <<"\n">>)
         ELSE IF ~in_must_pass
         THEN MustPassText(lines, i + 1, FALSE, must_pass_text)
         ELSE IF StartsWith(stripped, <<"#">>) \/ stripped = <<>>
         THEN IF must_pass_text # <<>> THEN must_pass_text
              ELSE MustPassText(lines, i + 1, TRUE, must_pass_text)
         ELSE MustPassText(lines, i + 1, TRUE, must_pass_text \o stripped \o <<"\n">>)

check_12_must_pass_validity(rfc) ==
    LET r == CheckResult("12. Must-pass validity", "hard")
        defined_scns == {did \in extract_defined_ids(rfc).defined :
                            StartsWith(did, <<"S", "C", "N", "-">>)}
        section_11 == _extract_section(rfc, AcceptancePattern)
        declared == MustPassText(SplitLines(section_11.text, 1, <<>>), 1, FALSE, <<>>)
        must_pass_text == IF declared = <<>> THEN section_11.text ELSE declared
        undefined == SelectSeq(Sorted(ScnRefs(must_pass_text)),
                               LAMBDA scn_id : scn_id \notin defined_scns)
    IN IF section_11.none THEN r
       ELSE FailAll(r, [k \in 1..Len(undefined) |->
                           [kind |-> "Must-pass SCN is not defined", id |-> undefined[k],
                            count |-> 0]], 1)

(***************************************************************************)
(* check_6_scn_coverage, under the built-in configuration: the category    *)
(* names and the heading keywords are spelled character by character, the  *)
(* CJK characters as zh_... (zh_bu zh_shi2 zh_yong is the phrase for "not  *)
(* applicable").                                                           *)
(***************************************************************************)
\* the CJK characters of the keywords; \w matches them
CjkChars ==
    {"zh_bang", "zh_bian", "zh_bu", "zh_chang", "zh_fa3", "zh_fei", "zh_gu", "zh_jie", "zh_lai", "zh_lan", "zh_lu3", "zh_quan", "zh_shi2", "zh_xian4", "zh_yi", "zh_yong", "zh_yue", "zh_zhang", "zh_zheng", "zh_zhi2"}
WordCharsUnicode == WordChars \cup CjkChars

\* MIN_SCN_CATEGORIES
MinScnCategories ==
    {<<"n", "o", "r", "m", "a", "l">>,
     <<"r", "e", "j", "e", "c", "t", "_", "a", "u", "t", "h", "n">>,
     <<"r", "e", "j", "e", "c", "t", "_", "a", "u", "t", "h", "z">>,
     <<"l", "i", "m", "i", "t", "s", "_", "q", "u", "o", "t", "a">>,
     <<"d", "e", "p", "e", "n", "d", "e", "n", "c", "y", "_", "d", "o", "w", "n">>,
     <<"a", "b", "u", "s", "e">>}
\* REJECT_CATEGORIES
RejectCategories ==
    {<<"r", "e", "j", "e", "c", "t", "_", "a", "u", "t", "h", "n">>,
     <<"r", "e", "j", "e", "c", "t", "_", "a", "u", "t", "h", "z">>}
\* HEADING_CATEGORY_MAP.items()
HeadingCategoryMap ==
    <<[keyword |-> <<"n", "o", "r", "m", "a", "l">>,
       cat |-> <<"n", "o", "r", "m", "a", "l">>],
      [keyword |-> <<"zh_zheng", "zh_chang">>,
       cat |-> <<"n", "o", "r", "m", "a", "l">>],
      [keyword |-> <<"a", "u", "t", "h", "n">>,
       cat |-> <<"r", "e", "j", "e", "c", "t", "_", "a", "u", "t", "h", "n">>],
      [keyword |-> <<"a", "u", "t", "h", "z">>,
       cat |-> <<"r", "e", "j", "e", "c", "t", "_", "a", "u", "t", "h", "z">>],
      [keyword |-> <<"zh_quan", "zh_xian4">>,
       cat |-> <<"r", "e", "j", "e", "c", "t", "_", "a", "u", "t", "h", "z">>],
      [keyword |-> <<"zh_yue", "zh_quan">>,
       cat |-> <<"r", "e", "j", "e", "c", "t", "_", "a", "u", "t", "h", "z">>],
      [keyword |-> <<"r", "e", "j", "e", "c", "t">>,
       cat |-> <<"r", "e", "j", "e", "c", "t", "_", "a", "u", "t", "h", "z">>],
      [keyword |-> <<"l", "i", "m", "i", "t", "s">>,
       cat |-> <<"l", "i", "m", "i", "t", "s", "_", "q", "u", "o", "t", "a">>],
      [keyword |-> <<"q", "u", "o", "t", "a">>,
       cat |-> <<"l", "i", "m", "i", "t", "s", "_", "q", "u", "o", "t", "a">>],
      [keyword |-> <<"zh_fei", "zh_fa3", "zh_zhi2">>,
       cat |-> <<"l", "i", "m", "i", "t", "s", "_", "q", "u", "o", "t", "a">>],
      [keyword |-> <<"zh_bian", "zh_jie">>,
       cat |-> <<"l", "i", "m", "i", "t", "s", "_", "q", "u", "o", "t", "a">>],
      [keyword |-> <<"d", "e", "p", "e", "n", "d", "e", "n", "c", "y">>,
       cat |-> <<"d", "e", "p", "e", "n", "d", "e", "n", "c", "y", "_", "d", "o", "w", "n">>],
      [keyword |-> <<"zh_yi", "zh_lai">>,
       cat |-> <<"d", "e", "p", "e", "n", "d", "e", "n", "c", "y", "_", "d", "o", "w", "n">>],
      [keyword |-> <<"zh_gu", "zh_zhang">>,
       cat |-> <<"d", "e", "p", "e", "n", "d", "e", "n", "c", "y", "_", "d", "o", "w", "n">>],
      [keyword |-> <<"r", "e", "c", "o", "v", "e", "r", "y">>,
       cat |-> <<"d", "e", "p", "e", "n", "d", "e", "n", "c", "y", "_", "d", "o", "w", "n">>],
      [keyword |-> <<"a", "b", "u", "s", "e">>,
       cat |-> <<"a", "b", "u", "s", "e">>],
      [keyword |-> <<"zh_lan", "zh_yong">>,
       cat |-> <<"a", "b", "u", "s", "e">>],
      [keyword |-> <<"zh_lu3", "zh_bang">>,
       cat |-> <<"a", "b", "u", "s", "e">>]>>
\* the entry that stands for the missing rejection category
RejectPlaceholder == <<"r", "e", "j", "e", "c", "t", "_", "a", "u", "t", "h", "n", " ", "o", "r", " ", "r", "e", "j", "e", "c", "t", "_", "a", "u", "t", "h", "z">>
\* the phrase that justifies a missing category
NotApplicable == <<"zh_bu", "zh_shi2", "zh_yong">>

\* SCN_CATEGORY_PATTERN.match at position p: SCN-\d{3,}:\s*(\w+)
MatchCategoryAt(s, p) ==
    LET d == RunEnd(s, p + 4, DigitChars)
        w == RunEnd(s, d + 1, SpaceChars)
        e == RunEnd(s, w, WordCharsUnicode)
    IN IF /\ HasAt(s, p, <<"S", "C", "N", "-">>)
          /\ d - (p + 4) >= MinIdDigits
          /\ HasAt(s, d, <<":">>)
          /\ e > w
       THEN [start |-> p, end |-> e, g1 |-> SubSeq(s, w, e - 1), g2 |-> <<>>]
       ELSE NoMatch

\* the words of SCN_CATEGORY_PATTERN.finditer(s), lower-cased, from p on
RECURSIVE DeclaredCategories(_, _)
DeclaredCategories(s, p) ==
    LET hits == {q \in p..Len(s) : MatchCategoryAt(s, q).end > 0} IN
    IF hits = {} THEN {}
    ELSE LET q == CHOOSE x \in hits : \A y \in hits : x <= y
             m == MatchCategoryAt(s, q)
         IN {Lower(m.g1)} \cup DeclaredCategories(s, m.end)

\* pattern 2: the categories named on a line that holds "scn-"
ScnLineCategories(lines) ==
    {cat \in MinScnCategories :
        \E i \in 1..Len(lines) :
            LET stripped == Lower(Strip(lines[i])) IN
            Contains(stripped, <<"s", "c", "n", "-">>) /\ Contains(stripped, cat)}

\* pattern 3: the categories of the keywords found in a heading line
HeadingCategories(lines) ==
    {HeadingCategoryMap[k].cat : k \in
        {k \in 1..Len(HeadingCategoryMap) :
            \E i \in 1..Len(lines) :
                LET stripped == Strip(lines[i]) IN
                /\ StartsWith(stripped, <<"#">>)
                /\ Contains(Lower(stripped), HeadingCategoryMap[k].keyword)}}

\* found_categories
FoundCategories(rfc) ==
    LET lines == SplitLines(rfc, 1, <<>>) IN
    DeclaredCategories(rfc, 1) \cup ScnLineCategories(lines) \cup HeadingCategories(lines)

\* cat.replace("_", ".")
Dotted(cat) == [i \in 1..Len(cat) |-> IF cat[i] = "_" THEN "." ELSE cat[i]]

\* the test that takes a category out of missing
Justified(rfc, cat) == Contains(rfc, NotApplicable) /\ Contains(Lower(rfc), Dotted(cat))

MissingIssue(missing) ==
    [kind |-> "Missing SCN categories", id |-> Sorted(missing), count |-> Cardinality(missing)]

check_6_scn_coverage(rfc) ==
    LET r == CheckResult("6. SCN category coverage", "hard")
        found_categories == FoundCategories(rfc)
        has_reject == (found_categories \cap RejectCategories) # {}
        required_non_reject == MinScnCategories \ RejectCategories
        missing0 == (required_non_reject \ found_categories)
                        \cup (IF has_reject THEN {} ELSE {RejectPlaceholder})
        missing == {cat \in missing0 : ~Justified(rfc, cat)}
    IN IF missing # {} THEN fail(r, MissingIssue(missing)) ELSE r

\* the command line of a run
Args(given, file) == [given |-> given, config |-> file]
NoArgs == Args(FALSE, AbsentFile)

IdleCfg == heap = <<>> /\ loaded = <<>> /\ snap = <<>> /\ muts = 0

IdleAgg == hard_results = <<>> /\ soft_results = <<>> /\ report = NoReport

NoCheck == CheckResult("", "hard")

IdleRun ==
    /\ adjacent = AbsentFile /\ args = NoArgs
    /\ constants = NoConstants /\ doc_findings = {}

NoEvidence == [items |-> <<>>]

IdleChk ==
    /\ heading_pattern = <<>> /\ extracted = None
    /\ evidence = NoEvidence /\ result = NoCheck

IdleIds ==
    /\ text = <<>> /\ ids = {} /\ defined = {} /\ all_ids = {} /\ check2 = NoCheck

(***************************************************************************)
(* SpecAgg: a caller builds the two lists and calls run_gate_a once.       *)
(***************************************************************************)
RECURSIVE CallCount(_, _)
CallCount(rs, i) ==
    IF i > Len(rs) THEN 0
    ELSE Len(rs[i].issues) + Len(rs[i].warnings) + CallCount(rs, i + 1)

InitAgg ==
    /\ pc = "build"
    /\ hard_results = <<>>
    /\ soft_results = <<>>
    /\ report = NoReport
    /\ IdleIds /\ IdleCfg /\ IdleRun /\ IdleChk

NewHard ==
    /\ pc = "build"
    /\ Len(hard_results) + Len(soft_results) < MaxResults
    /\ \E n \in CheckNames :
          hard_results' = Append(hard_results, CheckResult(n, "hard"))
    /\ UNCHANGED <<pc, soft_results, report, idVars, cfgVars, runVars, chkVars>>

NewSoft ==
    /\ pc = "build"
    /\ Len(hard_results) + Len(soft_results) < MaxResults
    /\ \E n \in CheckNames :
          soft_results' = Append(soft_results, CheckResult(n, "soft"))
    /\ UNCHANGED <<pc, hard_results, report, idVars, cfgVars, runVars, chkVars>>

CallsLeft ==
    CallCount(hard_results, 1) + CallCount(soft_results, 1) < MaxCalls

FailHard ==
    /\ pc = "build" /\ CallsLeft
    /\ \E i \in 1..Len(hard_results), m \in Msgs :
          hard_results' = [hard_results EXCEPT ![i] = fail(@, m)]
    /\ UNCHANGED <<pc, soft_results, report, idVars, cfgVars, runVars, chkVars>>

WarnHard ==
    /\ pc = "build" /\ CallsLeft
    /\ \E i \in 1..Len(hard_results), m \in Msgs :
          hard_results' = [hard_results EXCEPT ![i] = warn(@, m)]
    /\ UNCHANGED <<pc, soft_results, report, idVars, cfgVars, runVars, chkVars>>

FailSoft ==
    /\ pc = "build" /\ CallsLeft
    /\ \E i \in 1..Len(soft_results), m \in Msgs :
          soft_results' = [soft_results EXCEPT ![i] = fail(@, m)]
    /\ UNCHANGED <<pc, hard_results, report, idVars, cfgVars, runVars, chkVars>>

WarnSoft ==
    /\ pc = "build" /\ CallsLeft
    /\ \E i \in 1..Len(soft_results), m \in Msgs :
          soft_results' = [soft_results EXCEPT ![i] = warn(@, m)]
    /\ UNCHANGED <<pc, hard_results, report, idVars, cfgVars, runVars, chkVars>>

RunGateA ==
    /\ pc = "build"
    /\ report' = run_gate_a(hard_results, soft_results)
    /\ pc' = "done"
    /\ UNCHANGED <<hard_results, soft_results, idVars, cfgVars, runVars, chkVars>>

NextAgg ==
    \/ NewHard \/ NewSoft
    \/ FailHard \/ WarnHard \/ FailSoft \/ WarnSoft
    \/ RunGateA

SpecAgg == InitAgg /\ [][NextAgg]_vars

(***************************************************************************)
(* Claims about run_gate_a                                                 *)
(***************************************************************************)
Range(s) == {s[i] : i \in 1..Len(s)}

AnyHardFailed == \E i \in 1..Len(hard_results) : ~hard_results[i].passed
AnySoftWarned == \E i \in 1..Len(soft_results) : Len(soft_results[i].warnings) >= 1

\* C1: overall is FAIL when at least one hard result has passed = false,
\* whatever the soft results carry; otherwise WARN when at least one soft
\* result carries a warning; otherwise PASS.
C1_Precedence ==
    pc = "done" =>
        report.overall = IF AnyHardFailed THEN "FAIL"
                         ELSE IF AnySoftWarned THEN "WARN"
                         ELSE "PASS"

\* a hard failure together with a soft warning has been aggregated
C1_Witness ==
    /\ pc = "done"
    /\ AnyHardFailed /\ AnySoftWarned
    /\ report.overall = "FAIL"

AllResults == hard_results \o soft_results

AccountsFor ==
    /\ \A i \in 1..Len(hard_results) :
          LET r == hard_results[i] IN
          /\ (r.name \in Range(report.hard_pass)) <=> r.passed
          /\ (r.name \in Range(report.hard_fail)) <=> ~r.passed
    /\ Range(report.soft_warn) =
          {soft_results[i].name : i \in {j \in 1..Len(soft_results) :
                                           soft_results[j].warnings # <<>>}}
    /\ \A i \in 1..Len(AllResults) :
          LET r == AllResults[i] IN
          /\ r.name \in DOMAIN report.details
          /\ report.details[r.name] = DetailEntry(r)

\* C2 as stated: the report accounts for every input result, for every pair
\* of input lists.
C2_AccountsForAll == pc = "done" => AccountsFor

DistinctNames ==
    \A i, j \in 1..Len(AllResults) :
        AllResults[i].name = AllResults[j].name => i = j

\* C2: when the names of the input results are pairwise distinct, each hard
\* result's name is in exactly one of hard_pass (iff passed) and hard_fail
\* (iff not passed), soft_warn holds exactly the names of the soft results
\* with a warning, and details[r.name] carries r's own passed flag, issues
\* and warnings for every hard or soft result r.
C2_AccountsForDistinct == (pc = "done" /\ DistinctNames) => AccountsFor

\* a report over a failed hard result, a passed one and a warned soft one,
\* all of different names
C2_Witness ==
    /\ pc = "done" /\ DistinctNames
    /\ Len(hard_results) >= 1 /\ Len(soft_results) >= 1
    /\ AnyHardFailed /\ AnySoftWarned
    /\ report.details[soft_results[1].name].warnings # <<>>

(***************************************************************************)
(* Claims about CheckResult                                                *)
(***************************************************************************)
\* a result keeps its place in its list: the lists only grow at the end
SameResults(rs, rs2) ==
    \A i \in 1..Len(rs) : i <= Len(rs2) /\ rs2[i].name = rs[i].name

\* what one step may do to one result: nothing, one fail() or one warn()
ResultStep(r, r2) ==
    /\ r.issues # r2.issues =>
          /\ \E m \in Msgs : r2.issues = Append(r.issues, m)
          /\ r2.warnings = r.warnings
          /\ ~r2.passed
    /\ r.warnings # r2.warnings =>
          /\ \E m \in Msgs : r2.warnings = Append(r.warnings, m)
          /\ r2.issues = r.issues
          /\ r2.passed = r.passed
    /\ ~r.passed => ~r2.passed

ResultSteps(rs, rs2) ==
    SameResults(rs, rs2) /\ \A i \in 1..Len(rs) : ResultStep(rs[i], rs2[i])

PassedIffNoIssues(rs) ==
    \A i \in 1..Len(rs) : rs[i].passed <=> rs[i].issues = <<>>

\* C29: after any sequence of fail() and warn() calls a result is passed
\* iff its issue list is empty; a step that changes the issues of a result
\* appends one issue, clears passed and leaves the warnings; a step that
\* changes its warnings appends one warning and leaves passed and the
\* issues; a result that is not passed stays not passed.
C29_CheckResultInvariant ==
    /\ [](PassedIffNoIssues(hard_results) /\ PassedIffNoIssues(soft_results))
    /\ [][ResultSteps(hard_results, hard_results')
           /\ ResultSteps(soft_results, soft_results')]_vars

\* a result that failed and was then warned, or warned and then failed
C29_Witness ==
    \E i \in 1..Len(hard_results) :
        /\ ~hard_results[i].passed
        /\ Len(hard_results[i].issues) = 1
        /\ Len(hard_results[i].warnings) = 1

(***************************************************************************)
(* SpecIds: a document text is chosen and the three functions are applied. *)
(* A text is a concatenation of up to MaxAtoms atoms.                      *)
(***************************************************************************)
MaxAtoms == 4

Atoms ==
    {<<"H", "R", "-", "0", "0", "1">>,
     <<"D", "E", "C", "-", "0", "0", "1">>,
     <<"S">>, <<"-">>, <<"1">>, <<" ">>, <<"|">>, <<"\n">>}

RECURSIVE Flatten(_, _)
Flatten(as, i) == IF i > Len(as) THEN <<>> ELSE as[i] \o Flatten(as, i + 1)

AtomSeqs == UNION {[1..n -> Atoms] : n \in 0..MaxAtoms}

InitIds ==
    /\ pc = "start"
    /\ \E as \in AtomSeqs : text = Flatten(as, 1)
    /\ ids = {} /\ defined = {} /\ all_ids = {} /\ check2 = NoCheck
    /\ IdleAgg /\ IdleCfg /\ IdleRun /\ IdleChk

ExtractIds ==
    /\ pc = "start"
    /\ ids' = extract_ids(text)
    /\ pc' = "extract_ids"
    /\ UNCHANGED <<text, defined, all_ids, check2, aggVars, cfgVars, runVars, chkVars>>

ExtractDefinedIds ==
    /\ pc = "start"
    /\ LET ex == extract_defined_ids(text) IN
          /\ defined' = ex.defined
          /\ all_ids' = ex.all_ids
    /\ pc' = "extract_defined_ids"
    /\ UNCHANGED <<text, ids, check2, aggVars, cfgVars, runVars, chkVars>>

Check2 ==
    /\ pc = "start"
    /\ check2' = check_2_id_integrity(text)
    /\ pc' = "check_2"
    /\ UNCHANGED <<text, ids, defined, all_ids, aggVars, cfgVars, runVars, chkVars>>

NextIds == ExtractIds \/ ExtractDefinedIds \/ Check2

SpecIds == InitIds /\ [][NextIds]_vars

(***************************************************************************)
(* Claims about the identifier extractor and check 2                       *)
(***************************************************************************)
HrPrefix == <<"H", "R", "-">>

\* id has the generic form HR-NNN
IsGenericHR(id) ==
    /\ Len(id) >= 3 + MinIdDigits
    /\ HasAt(id, 1, HrPrefix)
    /\ \A i \in 4..Len(id) : id[i] \in DigitChars

\* the token tok stands at position p of s and ends there (no word
\* character follows it)
TokenAt(s, p, tok) ==
    /\ HasAt(s, p, tok)
    /\ (p + Len(tok) > Len(s) \/ s[p + Len(tok)] \notin WordChars)

\* a generic token HR-NNN (three or more digits) stands at position p
HrTokenAt(s, p) ==
    /\ HasAt(s, p, HrPrefix)
    /\ (p = 1 \/ s[p - 1] \notin WordChars)
    /\ \E n \in MinIdDigits..Len(s) :
          /\ p + 2 + n <= Len(s)
          /\ \A i \in 1..n : s[p + 2 + i] \in DigitChars
          /\ (p + 3 + n > Len(s) \/ s[p + 3 + n] \notin WordChars)

HrTokenEnd(s, p) ==
    CHOOSE e \in (p + 3)..(Len(s) + 1) :
        /\ \A i \in (p + 3)..(e - 1) : s[i] \in DigitChars
        /\ (e > Len(s) \/ s[e] \notin DigitChars)

\* where the run of upper-case letters that ends at position p begins
UpperRunStart(s, p) ==
    CHOOSE j \in 1..p :
        /\ \A i \in j..p : s[i] \in UpperChars
        /\ (j = 1 \/ s[j - 1] \notin UpperChars)

\* the HR-NNN token at p is the tail of a domain-prefixed DOMAIN-HR-NNN token
DomainPrefixed(s, p) ==
    /\ p >= 3
    /\ s[p - 1] = "-"
    /\ s[p - 2] \in UpperChars
    /\ LET j == UpperRunStart(s, p - 2) IN j = 1 \/ s[j - 1] \notin WordChars

\* the HR-NNN tokens of s that lie inside no DOMAIN-HR-NNN token
FreeHrTokens(s) ==
    {SubSeq(s, p, HrTokenEnd(s, p) - 1) :
        p \in {q \in 1..Len(s) : HrTokenAt(s, q) /\ ~DomainPrefixed(s, q)}}

\* the DOMAIN-HR-NNN tokens of s
DomainHrTokens(s) ==
    {SubSeq(s, UpperRunStart(s, p - 2), HrTokenEnd(s, p) - 1) :
        p \in {q \in 1..Len(s) : HrTokenAt(s, q) /\ DomainPrefixed(s, q)}}

NoDoubleCount(found) ==
    /\ {id \in found : IsGenericHR(id)} \subseteq FreeHrTokens(text)
    /\ DomainHrTokens(text) \subseteq found

\* C8: the sets returned by extract_ids and extract_defined_ids contain a
\* generic HR-NNN only if the text has an HR-NNN token that is not inside a
\* DOMAIN-HR-NNN token, and they contain every DOMAIN-HR-NNN token; a text
\* whose only hard-rule token is S-HR-001 yields S-HR-001 and not HR-001.
C8_NoDoubleCounting ==
    /\ pc = "extract_ids" => NoDoubleCount(ids)
    /\ pc = "extract_defined_ids" =>
          (NoDoubleCount(all_ids) /\ defined \subseteq all_ids)

\* extract_ids has run on a text whose only hard-rule tokens are
\* domain-prefixed
C8_Witness ==
    /\ pc = "extract_ids"
    /\ DomainHrTokens(text) # {}
    /\ FreeHrTokens(text) = {}
    /\ ids = DomainHrTokens(text)
    /\ <<"H", "R", "-", "0", "0", "1">> \notin ids

\* the positions of a trimmed line at which a definition may stand: the
\* line start, after a leading marker run, after a table-cell leader
DefinitionPositions(stripped) ==
    {1}
    \cup (IF Len(stripped) >= 1 /\ stripped[1] \in MarkerChars
          THEN {CHOOSE q \in 2..(Len(stripped) + 1) :
                   \E i \in 2..q :
                      /\ \A k \in 1..(i - 1) : stripped[k] \in MarkerChars
                      /\ (i > Len(stripped) \/ stripped[i] \notin MarkerChars)
                      /\ \A k \in i..(q - 1) : stripped[k] \in SpaceChars
                      /\ (q > Len(stripped) \/ stripped[q] \notin SpaceChars)}
          ELSE {})
    \cup (IF Len(stripped) >= 1 /\ stripped[1] = "|"
          THEN {CHOOSE q \in 2..(Len(stripped) + 1) :
                   /\ \A k \in 2..(q - 1) : stripped[k] \in SpaceChars
                   /\ (q > Len(stripped) \/ stripped[q] \notin SpaceChars)}
          ELSE {})

\* exactly the identifier id stands at a definition position of the line
IsDefinitionOf(stripped, id) ==
    \E q \in DefinitionPositions(stripped) : TokenAt(stripped, q, id)

DefinitionLines(s, id) ==
    {i \in 1..Len(StrippedLines(s)) : IsDefinitionOf(StrippedLines(s)[i], id)}

\* C9: extract_defined_ids puts an identifier in the defined set iff some
\* occurrence of exactly that identifier is a definition (at the start of
\* the trimmed line, after a leading marker, or after a table-cell leader);
\* an identifier that occurs only elsewhere is in all_ids and not in defined.
C9_DefinedIffDefinition ==
    pc = "extract_defined_ids" =>
        /\ defined \subseteq all_ids
        /\ \A id \in all_ids :
              id \in defined <=> DefinitionLines(text, id) # {}

IsDuplicateIssueOf(issue, id) ==
    issue.kind = "Duplicate ID definition" /\ issue.id = id

\* C10: when some identifier has two or more definition occurrences, check 2
\* fails with a duplicate-definition issue naming it; when every identifier
\* is defined at most once, check 2 reports no duplicate-definition issue.
C10_DuplicatesReported ==
    pc = "check_2" =>
        LET ex == extract_defined_ids(text) IN
        /\ \A id \in ex.all_ids :
              Cardinality(DefinitionLines(text, id)) >= 2 =>
                  /\ ~check2.passed
                  /\ \E k \in 1..Len(check2.issues) :
                        IsDuplicateIssueOf(check2.issues[k], id)
        /\ (\A id \in ex.all_ids : Cardinality(DefinitionLines(text, id)) <= 1) =>
              \A k \in 1..Len(check2.issues) :
                  check2.issues[k].kind # "Duplicate ID definition"


IsDanglingIssueOf(issue, id) ==
    issue.kind = "Dangling reference" /\ issue.id = id

DanglingReported(id) ==
    \E k \in 1..Len(check2.issues) : IsDanglingIssueOf(check2.issues[k], id)

\* C11: check 2 reports a dangling-reference issue for an identifier iff the
\* identifier occurs in the document and has no definition in it; a document
\* in which every identifier that occurs is defined, and none twice, passes
\* check 2.
C11_DanglingIffUndefined ==
    pc = "check_2" =>
        LET ex == extract_defined_ids(text) IN
        /\ \A k \in 1..Len(check2.issues) :
              check2.issues[k].kind = "Dangling reference" =>
                  check2.issues[k].id \in ex.all_ids
        /\ \A id \in ex.all_ids :
              DanglingReported(id) <=> DefinitionLines(text, id) = {}
        /\ (\A id \in ex.all_ids : Cardinality(DefinitionLines(text, id)) = 1) =>
              check2.passed

(***************************************************************************)
(* SpecCfg: load_config is called repeatedly and the callers mutate the    *)
(* containers of the configurations they got.                              *)
(***************************************************************************)
MaxLoads == 2       \* load_config calls
MaxMutations == 1   \* mutations by the callers

\* the files load_config is given in SpecCfg
IsolationFiles ==
    {AbsentFile,
     File("badjson", <<>>, Null),
     MappingFile(<<OverrideOptions[7], OverrideOptions[9]>>)}

LoadResult(r, file) == [exc |-> r.exc, cfg |-> r.cfg, file |-> file]

InitCfg ==
    /\ pc = "config"
    /\ heap = DefaultHeap
    /\ loaded = <<>>
    /\ snap = <<>>
    /\ muts = 0
    /\ IdleAgg /\ IdleIds /\ IdleRun /\ IdleChk

LoadConfig ==
    /\ pc = "config"
    /\ Len(loaded) < MaxLoads
    /\ \E f \in IsolationFiles :
          LET r == load_config(heap, f) IN
          /\ heap' = r.h
          /\ loaded' = Append(loaded, LoadResult(r, f))
          /\ snap' = Append(snap, IF r.exc = "" THEN Ser(r.h, r.cfg) ELSE <<>>)
    /\ UNCHANGED <<pc, muts, aggVars, idVars, runVars, chkVars>>

\* the containers of the i-th returned configuration a caller can reach,
\* the configuration dict itself included
Containers(i) ==
    IF loaded[i].exc = "" THEN Reachable(heap, loaded[i].cfg) ELSE {}

\* cfg[...].append("INJECTED") on a list, cfg[...]["INJECTED"] = "INJECTED"
\* on a dict
MutateInsert ==
    /\ pc = "config"
    /\ muts < MaxMutations
    /\ \E i \in 1..Len(loaded) : \E n \in Containers(i) :
          /\ heap' = [heap EXCEPT ![n] =
                IF @.t = "list" THEN [@ EXCEPT !.items = Append(@, Str("INJECTED"))]
                ELSE DictSet(@, "INJECTED", Str("INJECTED"))]
          /\ snap' = [snap EXCEPT ![i] = Ser(heap', loaded[i].cfg)]
    /\ muts' = muts + 1
    /\ UNCHANGED <<pc, loaded, aggVars, idVars, runVars, chkVars>>

\* cfg[...].clear()
MutateClear ==
    /\ pc = "config"
    /\ muts < MaxMutations
    /\ \E i \in 1..Len(loaded) : \E n \in Containers(i) :
          /\ heap' = [heap EXCEPT ![n] = [@ EXCEPT !.keys = <<>>, !.items = <<>>]]
          /\ snap' = [snap EXCEPT ![i] = Ser(heap', loaded[i].cfg)]
    /\ muts' = muts + 1
    /\ UNCHANGED <<pc, loaded, aggVars, idVars, runVars, chkVars>>

NextCfg == LoadConfig \/ MutateInsert \/ MutateClear

SpecCfg == InitCfg /\ [][NextCfg]_vars

(***************************************************************************)
(* SpecLoad: load_config is called once on a file drawn from the absent,   *)
(* malformed and non-mapping files and the override mappings.              *)
(***************************************************************************)
InitLoad ==
    /\ pc = "file"
    /\ heap = DefaultHeap
    /\ \E f \in NonMappingFiles \cup MappingFiles :
          loaded = <<[exc |-> "", cfg |-> Null, file |-> f]>>
    /\ snap = <<>>
    /\ muts = 0
    /\ IdleAgg /\ IdleIds /\ IdleRun /\ IdleChk

LoadOnce ==
    /\ pc = "file"
    /\ LET r == load_config(heap, loaded[1].file) IN
          /\ heap' = r.h
          /\ loaded' = <<LoadResult(r, loaded[1].file)>>
    /\ pc' = "loaded"
    /\ UNCHANGED <<snap, muts, aggVars, idVars, runVars, chkVars>>

NextLoad == LoadOnce

SpecLoad == InitLoad /\ [][NextLoad]_vars

(***************************************************************************)
(* Claims about load_config                                                *)
(***************************************************************************)
Returned == {i \in 1..Len(loaded) : loaded[i].exc = ""}

\* C3: after any sequence of load_config calls and mutations of containers
\* of the returned configurations, DEFAULT_CONFIG has its original value,
\* every returned configuration has the value its own caller gave it (its
\* value at return, changed only by mutations made through it), and no two
\* results, nor a result and DEFAULT_CONFIG, share a container.
C3_Isolation ==
    pc = "config" =>
        /\ Ser(heap, DEFAULT_CONFIG) = Ser(DefaultHeap, DEFAULT_CONFIG)
        /\ \A i \in Returned : Ser(heap, loaded[i].cfg) = snap[i]
        /\ \A i \in Returned :
              Reachable(heap, loaded[i].cfg) \cap Reachable(heap, DEFAULT_CONFIG) = {}
        /\ \A i, j \in Returned :
              i # j => Reachable(heap, loaded[i].cfg)
                          \cap Reachable(heap, loaded[j].cfg) = {}

\* two configurations were returned and a collection-valued field of the
\* first has been mutated
C3_Witness ==
    /\ pc = "config"
    /\ Cardinality(Returned) >= 2
    /\ muts >= 1
    /\ Ser(heap, loaded[1].cfg) # Ser(DefaultHeap, DEFAULT_CONFIG)
    /\ Ser(heap, loaded[2].cfg) = Ser(DefaultHeap, DEFAULT_CONFIG)

IsMapping(file) ==
    file.kind = "json" /\ file.root.t = "ref" /\ file.nodes[file.root.n].t = "dict"

\* C4: for an override file that is absent or malformed (unreadable, not
\* JSON, or JSON that is no mapping), load_config raises nothing and returns
\* a configuration equal to the built-in defaults.
C4_FallsBackToDefaults ==
    (pc = "loaded" /\ ~IsMapping(loaded[1].file)) =>
        /\ loaded[1].exc = ""
        /\ Ser(heap, loaded[1].cfg) = Ser(DefaultHeap, DEFAULT_CONFIG)

\* the value of the top-level key k in the override mapping of a file
OverrideValue(file, k) ==
    Ser(file.nodes, DictGet(file.nodes[file.root.n], k))

\* C5: for an override file that is a mapping, the returned configuration
\* has, for every top-level key of the override, exactly the override's
\* value, and for every default key absent from the override the default's
\* value; it has no other key.
C5_ShallowMerge ==
    (pc = "loaded" /\ IsMapping(loaded[1].file)) =>
        /\ loaded[1].exc = ""
        /\ LET cfg == heap[loaded[1].cfg.n]
               ov == loaded[1].file.nodes[loaded[1].file.root.n]
               deflt == DefaultHeap[DEFAULT_CONFIG.n]
           IN /\ SeqSet(cfg.keys) = SeqSet(ov.keys) \cup SeqSet(deflt.keys)
              /\ \A k \in SeqSet(ov.keys) :
                    Ser(heap, DictGet(cfg, k)) = OverrideValue(loaded[1].file, k)
              /\ \A k \in SeqSet(deflt.keys) \ SeqSet(ov.keys) :
                    Ser(heap, DictGet(cfg, k)) = Ser(DefaultHeap, DictGet(deflt, k))

\* an override replacing heading_category_map by a one-entry map was loaded
C5_Witness ==
    /\ pc = "loaded" /\ IsMapping(loaded[1].file)
    /\ loaded[1].exc = ""
    /\ "heading_category_map" \in SeqSet(loaded[1].file.nodes[1].keys)
    /\ Ser(heap, DictGet(heap[loaded[1].cfg.n], "heading_category_map"))
          = <<"{", "login", ":", "str", "reject_authn", ",", "}">>
    /\ Ser(heap, DictGet(heap[loaded[1].cfg.n], "meta_fields"))
          = Ser(DefaultHeap, Ref(5))


(***************************************************************************)
(* SpecRun: the script is started on a document.  Importing the module     *)
(* loads gate_a_config.json from the script's directory and derives the    *)
(* module-level constants; main then loads the configuration of the run,   *)
(* runs the checks and aggregates.                                         *)
(***************************************************************************)
MaxFlagged == 1   \* checks that have an entry in the override's sections

FlagValues == {"none", "nokey", "true", "false"}

ToggleNames == SeqSet(HardCheckNames) \cup SeqSet(SoftCheckNames)

\* {"hard_checks": {...}, "soft_checks": {...}} with the given entries
FlagsFile(flags) ==
    MappingFile(<<Entry("hard_checks", FlagsTree(HardCheckNames, flags)),
                  Entry("soft_checks", FlagsTree(SoftCheckNames, flags))>>)

FlagsFiles ==
    {FlagsFile(flags) : flags \in
        {f \in [ToggleNames -> FlagValues] :
            Cardinality({nm \in ToggleNames : f[nm] # "none"}) <= MaxFlagged}}

\* {"placeholder_patterns": ["ZZZ"]}
PatternsFile == MappingFile(<<OverrideOptions[8]>>)

\* what is at gate_a_config.json next to the script
AdjacentFiles ==
    {AbsentFile,
     PatternsFile,
     MappingFile(<<OverrideOptions[9]>>),
     MappingFile(<<OverrideOptions[6]>>)}

\* what is at the path given with --config
ConfigFiles ==
    {PatternsFile, File("badjson", <<>>, Null), JsonFile(<<>>, Num("5"))}
    \cup FlagsFiles

\* the documents: one that trips check 3 only under the pattern ZZZ, one
\* that trips it under the default patterns too, one that trips check 2
RunDocs ==
    {<<"Z", "Z", "Z">>,
     <<"x", "T", "B", "D", "\n", "Z", "Z", "Z", " ", "T", "O", "D", "O">>,
     <<"H", "R", "-", "0", "0", "1", " ", "H", "R", "-", "0", "0", "1">>}

\* the checks a document of SpecRun may trip besides 2 and 3: check 1 and
\* the checks that can be disabled
TrippedTitles == {CheckTitles[1]} \cup {CheckTitles[i] : i \in 10..17}

InitRun ==
    /\ pc = "import"
    /\ adjacent \in AdjacentFiles
    /\ args \in {NoArgs} \cup {Args(TRUE, f) : f \in ConfigFiles}
    /\ text \in RunDocs
    /\ doc_findings \in {{}} \cup {{t} : t \in TrippedTitles}
    /\ constants = NoConstants
    /\ heap = DefaultHeap
    /\ loaded = <<>>
    /\ snap = <<>> /\ muts = 0
    /\ ids = {} /\ defined = {} /\ all_ids = {} /\ check2 = NoCheck
    /\ IdleAgg /\ IdleChk

\* the module body, lines "_CFG = load_config()" to PLACEHOLDER_PATTERN
Import ==
    /\ pc = "import"
    /\ \E r \in {load_config(heap, adjacent)} :
          /\ heap' = r.h
          /\ loaded' = Append(loaded, LoadResult(r, adjacent))
          /\ IF r.exc = "" /\ Derivable(r.h, r.cfg)
             THEN constants' = ModuleConstants(r.h, r.cfg) /\ pc' = "main"
             ELSE constants' = constants /\ pc' = "import_error"
    /\ UNCHANGED <<adjacent, args, doc_findings, snap, muts, aggVars, idVars, chkVars>>

\* the results of the checks main runs under the loaded configuration cfg
RunChecks(h, cfg, rfc, consts, findings) ==
    [hard |-> AlwaysOnResults(rfc, consts, findings)
              \o ConfigurableResults(h, SectionOf(h, cfg, "hard_checks"),
                                     HardCheckNames, 10, "hard", findings, 1),
     soft |-> ConfigurableResults(h, SectionOf(h, cfg, "soft_checks"),
                                  SoftCheckNames, 15, "soft", findings, 1)]

\* main(), up to the call of run_gate_a
Main ==
    /\ pc = "main"
    /\ \E file \in {IF args.given THEN args.config ELSE adjacent} :
       \E r \in {load_config(heap, file)} :
          /\ heap' = r.h
          /\ loaded' = Append(loaded, LoadResult(r, file))
          /\ IF /\ r.exc = ""
                /\ SectionUsable(r.h, SectionOf(r.h, r.cfg, "hard_checks"), HardCheckNames)
                /\ SectionUsable(r.h, SectionOf(r.h, r.cfg, "soft_checks"), SoftCheckNames)
             THEN \E res \in {RunChecks(r.h, r.cfg, text, constants, doc_findings)} :
                  /\ hard_results' = res.hard
                  /\ soft_results' = res.soft
                  /\ report' = run_gate_a(res.hard, res.soft)
                  /\ pc' = "exit"
             ELSE /\ UNCHANGED aggVars
                  /\ pc' = "main_error"
    /\ UNCHANGED <<adjacent, args, constants, doc_findings, snap, muts, idVars, chkVars>>

NextRun == Import \/ Main

SpecRun == InitRun /\ [][NextRun]_vars

(***************************************************************************)
(* Claims about a run                                                      *)
(***************************************************************************)
\* the file the configuration of the run is resolved from
RunFile == IF args.given THEN args.config ELSE adjacent

\* the configuration main resolved for the run
RunCfg == loaded[2].cfg

OverridesRule(file) ==
    /\ IsMapping(file)
    /\ \E k \in SeqSet(ConfigKeys) : k \in SeqSet(file.nodes[file.root.n].keys)

\* C6 as stated: when the run is given an override file that changes a rule
\* parameter, the parameters the checks read are those of the configuration
\* resolved for the run, and check 3 reports the placeholders of that
\* configuration's placeholder_patterns.
C6_ChecksUseRunConfig ==
    (pc = "exit" /\ args.given /\ OverridesRule(args.config)) =>
        /\ constants = ModuleConstants(heap, RunCfg)
        /\ hard_results[3] =
              Check3With(text, ListOf(heap, DictGet(heap[RunCfg.n], "placeholder_patterns")))

Names(rs) == {rs[i].name : i \in 1..Len(rs)}

ToggleName(i) == IF i <= 14 THEN HardCheckNames[i - 9] ELSE SoftCheckNames[i - 14]
ToggleSection(i) == IF i <= 14 THEN "hard_checks" ELSE "soft_checks"

\* the enabled flag the file gives the check: "true", "false", or "absent"
\* when the file, the section, the entry or the flag is missing
FlagIn(file, section, name) ==
    IF ~IsMapping(file) THEN "absent"
    ELSE LET top == file.nodes[file.root.n] IN
         IF section \notin SeqSet(top.keys) THEN "absent"
         ELSE LET sec == file.nodes[DictGet(top, section).n] IN
              IF name \notin SeqSet(sec.keys) THEN "absent"
              ELSE LET e == file.nodes[DictGet(sec, name).n] IN
                   IF "enabled" \notin SeqSet(e.keys) THEN "absent"
                   ELSE DictGet(e, "enabled").s

Disabled(i) == FlagIn(RunFile, ToggleSection(i), ToggleName(i)) = "false"

\* what overall is when the findings of the disabled checks are left out
OverallOfEnabled ==
    IF \/ ~hard_results[2].passed
       \/ ~hard_results[3].passed
       \/ \E i \in 1..9 : CheckTitles[i] \in doc_findings
       \/ \E i \in 10..14 : ~Disabled(i) /\ CheckTitles[i] \in doc_findings
    THEN "FAIL"
    ELSE IF \E i \in 15..17 : ~Disabled(i) /\ CheckTitles[i] \in doc_findings
    THEN "WARN"
    ELSE "PASS"

MaxSecLines == 3

\* the lines a document of SpecSec is made of
SecLines ==
    {<<"#", " ", "1", "1", " ", "T">>,
     <<"#", "#", " ", "T", "r", "i", "g", "g", "e", "r">>,
     <<"#", "#", "#", " ", "x">>,
     <<"#", " ", "x">>,
     <<"x">>,
     <<" ", "#", "#", " ", "1", "1", " ">>,
     <<"#", "1", "1">>,
     <<>>,
     <<"#", "#", "#", "#", "#", "#", "#", " ", "1", "1">>}

\* r'(?:11|验收)' and r'(?:触发器|trigger|门禁触发|Gate Trigger)'
SecPatterns ==
    {<< <<"1", "1">>, <<"zh_yan", "zh_shou">> >>,
     << <<"zh_chu", "zh_fa", "zh_qi">>, <<"t", "r", "i", "g", "g", "e", "r">>,
        <<"zh_men", "zh_jin", "zh_chu", "zh_fa">>,
        <<"G", "a", "t", "e", " ", "T", "r", "i", "g", "g", "e", "r">> >>}

SecDocs == {JoinLines(ls, 1) : ls \in UNION {[1..n -> SecLines] : n \in 0..MaxSecLines}}

InitSec ==
    /\ pc = "start"
    /\ text \in SecDocs
    /\ heading_pattern \in SecPatterns
    /\ extracted = None
    /\ evidence = NoEvidence /\ result = NoCheck
    /\ ids = {} /\ defined = {} /\ all_ids = {} /\ check2 = NoCheck
    /\ IdleAgg /\ IdleCfg /\ IdleRun

ExtractSection ==
    /\ pc = "start"
    /\ extracted' = _extract_section(text, heading_pattern)
    /\ pc' = "extract_section"
    /\ UNCHANGED <<text, ids, defined, all_ids, check2, heading_pattern, evidence,
                   result, aggVars, cfgVars, runVars>>

NextSec == ExtractSection

SpecSec == InitSec /\ [][NextSec]_vars

(***************************************************************************)
(* Claims about _extract_section                                           *)
(***************************************************************************)
\* the depth of the heading on a trimmed line: the number n of 1 to 6 of
\* leading # that white space and a title follow; 0 when the line is no
\* heading
DepthOf(l) ==
    LET ns == {n \in 1..6 : /\ Len(l) > n + 1
                            /\ \A k \in 1..n : l[k] = "#"
                            /\ l[n + 1] \in SpaceChars}
    IN IF ns = {} THEN 0 ELSE CHOOSE n \in ns : TRUE

\* the title of a heading of depth n: what follows the white space
TitleOf(l, n) ==
    LET t == CHOOSE q \in (n + 2)..Len(l) :
                 /\ \A k \in (n + 1)..(q - 1) : l[k] \in SpaceChars
                 /\ l[q] \notin SpaceChars
    IN SubSeq(l, t, Len(l))

MatchingHeadings(s, alts) ==
    {i \in 1..Len(StrippedLines(s)) :
        LET l == StrippedLines(s)[i] IN
        DepthOf(l) > 0 /\ SearchAny(alts, TitleOf(l, DepthOf(l)))}

\* the lines from the first matching heading up to, not including, the
\* next heading that is not deeper, or up to the end
SectionSpan(s, alts) ==
    LET lines == StrippedLines(s)
        hits == MatchingHeadings(s, alts)
        first == CHOOSE i \in hits : \A j \in hits : i <= j
        ends == {j \in (first + 1)..Len(lines) :
                    DepthOf(lines[j]) > 0 /\ DepthOf(lines[j]) <= DepthOf(lines[first])}
        stop == IF ends = {} THEN Len(lines) + 1
                ELSE CHOOSE j \in ends : \A k \in ends : j <= k
    IN [k \in 1..(stop - first) |-> lines[first + k - 1]]

\* C12: _extract_section returns None iff no heading title matches the
\* pattern, case-insensitively; otherwise it returns the lines (trimmed)
\* from the first matching heading up to the line before the next heading
\* of the same or a lesser depth, or to the end of the document, deeper
\* headings and their lines included.
C12_SectionSpan ==
    pc = "extract_section" =>
        /\ extracted.none <=> MatchingHeadings(text, heading_pattern) = {}
        /\ ~extracted.none =>
              extracted.text = JoinLines(SectionSpan(text, heading_pattern), 1)

\* a section was returned that holds a deeper sub-heading and stops before
\* a later heading that is not deeper, the document going on after it
C12_Witness ==
    /\ pc = "extract_section"
    /\ ~extracted.none
    /\ LET span == SectionSpan(text, heading_pattern)
           first == CHOOSE i \in MatchingHeadings(text, heading_pattern) :
                       \A j \in MatchingHeadings(text, heading_pattern) : i <= j
       IN /\ \E k \in 2..Len(span) : DepthOf(span[k]) > DepthOf(span[1])
          /\ first + Len(span) <= Len(StrippedLines(text))

(***************************************************************************)
(* SpecPh: check 3 is applied, under the built-in configuration, to a      *)
(* document of up to MaxPhAtoms atoms.                                     *)
(***************************************************************************)
MaxPhAtoms == 3

\* zh stands for a CJK character
PhAtoms ==
    {<<"T", "B", "D">>, <<"X", "X", "X">>, <<"T", "O", "D", "O">>,
     <<"F", "I", "X", "M", "E">>, <<"<", ".", ".", ".", ">">>,
     <<"a">>, <<"Z">>, <<"5">>, <<"zh">>, <<" ">>, <<"\n">>}

DefaultConstants == ModuleConstants(DefaultHeap, DEFAULT_CONFIG)

InitPh ==
    /\ pc = "start"
    /\ \E as \in UNION {[1..n -> PhAtoms] : n \in 0..MaxPhAtoms} :
          text = Flatten(as, 1)
    /\ constants = DefaultConstants
    /\ result = NoCheck
    /\ heading_pattern = <<>> /\ extracted = None /\ evidence = NoEvidence
    /\ adjacent = AbsentFile /\ args = NoArgs /\ doc_findings = {}
    /\ ids = {} /\ defined = {} /\ all_ids = {} /\ check2 = NoCheck
    /\ IdleAgg /\ IdleCfg

Check3 ==
    /\ pc = "start"
    /\ result' = check_3_placeholders(text, constants)
    /\ pc' = "check_3"
    /\ UNCHANGED <<text, ids, defined, all_ids, check2, heading_pattern, extracted,
                   evidence, aggVars, cfgVars, runVars>>

NextPh == Check3

SpecPh == InitPh /\ [][NextPh]_vars

(***************************************************************************)
(* Claims about check 3                                                    *)
(***************************************************************************)
PlaceholderKeywords ==
    {<<"T", "B", "D">>, <<"X", "X", "X">>, <<"T", "O", "D", "O">>,
     <<"F", "I", "X", "M", "E">>}

IsLetter(c) == c \in UpperChars \cup LowerChars

\* the placeholder that occurs at position p of the line, or <<>>: a keyword
\* with no ASCII letter right before and right after it, or the literal <...>
OccurrenceAt(line, p) ==
    LET ks == {k \in PlaceholderKeywords :
                  /\ HasAt(line, p, k)
                  /\ ~(p > 1 /\ IsLetter(line[p - 1]))
                  /\ ~(p + Len(k) <= Len(line) /\ IsLetter(line[p + Len(k)]))}
    IN IF ks # {} THEN CHOOSE k \in ks : TRUE
       ELSE IF HasAt(line, p, <<"<", ".", ".", ".", ">">>) THEN <<"<", ".", ".", ".", ">">>
       ELSE <<>>

\* the occurrences on line number n, left to right, as issues
RECURSIVE LineOccurrences(_, _, _)
LineOccurrences(line, n, p) ==
    IF p > Len(line) THEN <<>>
    ELSE (IF OccurrenceAt(line, p) # <<>>
          THEN <<[kind |-> "placeholder found", id |-> OccurrenceAt(line, p), count |-> n]>>
          ELSE <<>>) \o LineOccurrences(line, n, p + 1)

RECURSIVE DocOccurrences(_, _)
DocOccurrences(lines, n) ==
    IF n > Len(lines) THEN <<>>
    ELSE LineOccurrences(lines[n], n, 1) \o DocOccurrences(lines, n + 1)

\* C15: check 3 fails iff some line holds a placeholder keyword with no
\* ASCII letter right before or right after it, or the literal <...>; every
\* such occurrence gives one issue with its 1-based line number, in document
\* order, and nothing else gives an issue.
C15_PlaceholderOccurrences ==
    pc = "check_3" =>
        LET occ == DocOccurrences(SplitLines(text, 1, <<>>), 1) IN
        /\ result.issues = occ
        /\ result.passed <=> occ = <<>>
        /\ result.warnings = <<>>

\* a keyword right after a CJK character, on the second line, was flagged
C15_Witness ==
    /\ pc = "check_3"
    /\ ~result.passed
    /\ Len(result.issues) = 1
    /\ result.issues[1].count = 2
    /\ result.issues[1].id \in PlaceholderKeywords
    /\ \E p \in 2..Len(text) : HasAt(text, p, result.issues[1].id) /\ text[p - 1] = "zh"

(***************************************************************************)
(* SpecStrict: check 8 is applied to a document of up to MaxStrictLines    *)
(* lines.                                                                  *)
(***************************************************************************)
MaxStrictLines == 3

\* strictness: L1 | Strictness: l2 | strictness: standard | strictness: full
\* | strictness: high | 5 roles | DEC-001 upgrade | upgrade DEC-001 | DEC-001
\* | x | (the CJK field name): L2
StrictLines ==
    {<<"s", "t", "r", "i", "c", "t", "n", "e", "s", "s", ":", " ", "L", "1">>,
     <<"S", "t", "r", "i", "c", "t", "n", "e", "s", "s", ":", " ", "l", "2">>,
     <<"s", "t", "r", "i", "c", "t", "n", "e", "s", "s", ":", " ", "s", "t", "a", "n", "d", "a", "r", "d">>,
     <<"s", "t", "r", "i", "c", "t", "n", "e", "s", "s", ":", " ", "f", "u", "l", "l">>,
     <<"s", "t", "r", "i", "c", "t", "n", "e", "s", "s", ":", " ", "h", "i", "g", "h">>,
     <<"5", " ", "r", "o", "l", "e", "s">>,
     <<"D", "E", "C", "-", "0", "0", "1", " ", "u", "p", "g", "r", "a", "d", "e">>,
     <<"u", "p", "g", "r", "a", "d", "e", " ", "D", "E", "C", "-", "0", "0", "1">>,
     <<"D", "E", "C", "-", "0", "0", "1">>,
     <<"x">>,
     <<"zh_yan", "zh_ge", "zh_du", ":", " ", "L", "2">>}

\* the state of a specification that applies one check to the document text
CheckStart ==
    /\ pc = "start"
    /\ result = NoCheck
    /\ constants = DefaultConstants
    /\ heading_pattern = <<>> /\ extracted = None
    /\ adjacent = AbsentFile /\ args = NoArgs /\ doc_findings = {}
    /\ ids = {} /\ defined = {} /\ all_ids = {} /\ check2 = NoCheck
    /\ IdleAgg /\ IdleCfg

\* what an action that applies one check leaves alone
CheckFrame ==
    UNCHANGED <<text, ids, defined, all_ids, check2, heading_pattern, extracted,
                evidence, aggVars, cfgVars, runVars>>

InitStrict ==
    /\ text \in {JoinLines(ls, 1) :
                    ls \in UNION {[1..n -> StrictLines] : n \in 0..MaxStrictLines}}
    /\ evidence = NoEvidence
    /\ CheckStart

Check8 ==
    /\ pc = "start"
    /\ result' = check_8_strictness(text)
    /\ pc' = "check_8"
    /\ CheckFrame

NextStrict == Check8

SpecStrict == InitStrict /\ [][NextStrict]_vars

(***************************************************************************)
(* Claims about check 8                                                    *)
(***************************************************************************)
\* a strictness field stands at position p: the field name, in either
\* language; the position after the name, or 0
FieldNameEnd(s, p) ==
    IF HasAtI(s, p, StrictnessWord) THEN p + Len(StrictnessWord)
    ELSE IF HasAt(s, p, StrictnessWordZh) THEN p + Len(StrictnessWordZh)
    ELSE 0

\* the value of the field at p: the word that follows the name and the
\* separators on the same line, lower-cased
FieldValue(s, p) ==
    LET a == RunEnd(s, FieldNameEnd(s, p), {":", " ", ")", "zh_colon", "zh_rparen"})
    IN Lower(SubSeq(s, a, RunEnd(s, a, WordChars) - 1))

\* the levels the fields of the document declare
DeclaredLevels(s) ==
    {LevelOf(FieldValue(s, p)) :
        p \in {q \in 1..Len(s) : /\ FieldNameEnd(s, q) # 0
                                 /\ FieldValue(s, q) \in SeqSet(LevelNames)}}

\* an upgrade signal is present: upgrade, the CJK word for it, 5-role,
\* 5 roles, or 5 followed by the CJK words for roles
UpgradeSignal(s) ==
    \/ ContainsI(s, UpgradeWord)
    \/ Contains(s, UpgradeWordZh)
    \/ ContainsI(s, <<"5", "-", "r", "o", "l", "e">>)
    \/ ContainsI(s, <<"5", " ", "r", "o", "l", "e", "s">>)
    \/ Contains(s, <<"5", " ", "zh_ge4", " ", "zh_jue", "zh_se">>)

\* a decision entry recording the upgrade: a line that holds both a DEC
\* identifier and the word upgrade
UpgradeEntry(s) ==
    \E i \in 1..Len(SplitLines(s, 1, <<>>)) :
        LET l == SplitLines(s, 1, <<>>)[i] IN
        /\ \E p \in 1..Len(l) :
              HasAtI(l, p, <<"d", "e", "c", "-">>)
              /\ RunEnd(l, p + 4, DigitChars) >= p + 4 + MinIdDigits
        /\ (ContainsI(l, UpgradeWord) \/ Contains(l, UpgradeWordZh))

\* C16: check 8 fails when the document has no strictness field or no field
\* with a value among light/standard/full/L1/L2/L3; when the level is the
\* middle tier and an upgrade signal is present, it fails iff no decision
\* entry holding both a DEC identifier and the word upgrade is present; at
\* the lowest and the highest tier it passes, upgrade signal or not.
C16_StrictnessAndUpgrade ==
    pc = "check_8" =>
        /\ DeclaredLevels(text) = {} => ~result.passed
        /\ (DeclaredLevels(text) = {"L2"} /\ UpgradeSignal(text)) =>
              (~result.passed <=> ~UpgradeEntry(text))
        /\ (DeclaredLevels(text) = {"L1"} \/ DeclaredLevels(text) = {"L3"}) =>
              result.passed

(***************************************************************************)
(* Check 13 applied to a document: a strictness field in one of the two    *)
(* spellings of a level, then lines that are headings of the acceptance    *)
(* section, of the coverage section and of another section, a table row    *)
(* with a scenario id, a line with a risk keyword and a scenario id, one   *)
(* with the keyword and the bare scenario marker, and one with the id only.*)
(***************************************************************************)
MaxCovLines == 2

LevelSpellings ==
    [L1 |-> <<<<"L", "1">>, LevelNames[1]>>,
     L2 |-> <<<<"L", "2">>, LevelNames[2]>>,
     L3 |-> <<<<"L", "3">>, LevelNames[3]>>]

StrictnessField(value) == StrictnessWord \o <<":", " ">> \o value

CovLines ==
    {<<"#", "#", " ", "1", "1", " ", "x">>,
     <<"#", "#", " ", "c", "o", "v", "e", "r", "a", "g", "e", " ", "m", "a", "t", "r", "i", "x">>,
     <<"#", "#", " ", "x">>,
     <<"|", " ", "x", " ", "|", " ", "S", "C", "N", "-", "0", "0", "1", " ", "|">>,
     <<"r", "i", "s", "k", " ", "S", "C", "N", "-", "0", "0", "1">>,
     <<"r", "i", "s", "k", " ", "S", "C", "N", "-">>,
     <<"S", "C", "N", "-", "0", "0", "1">>}

InitCov ==
    /\ text \in {JoinLines(<<StrictnessField(LevelSpellings[l][k])>> \o ls, 1) :
                    l \in DOMAIN LevelSpellings, k \in 1..2,
                    ls \in UNION {[1..n -> CovLines] : n \in 0..MaxCovLines}}
    /\ evidence = NoEvidence
    /\ CheckStart

Check13 ==
    /\ pc = "start"
    /\ result' = check_13_coverage_matrix(text)
    /\ pc' = "check_13"
    /\ CheckFrame

NextCov == Check13

SpecCov == InitCov /\ [][NextCov]_vars

(***************************************************************************)
(* Claims about check 13                                                   *)
(***************************************************************************)
\* a scenario identifier stands in the line
HasScenarioId(l) ==
    \E p \in 1..Len(l) : /\ HasAt(l, p, <<"S", "C", "N", "-">>)
                         /\ RunEnd(l, p + 4, DigitChars) >= p + 4 + MinIdDigits

\* the lines of the acceptance section and of the coverage section
CoverageLines(s) ==
    (IF MatchingHeadings(s, AcceptancePattern) = {} THEN {}
     ELSE SeqRange(SectionSpan(s, AcceptancePattern)))
    \cup (IF MatchingHeadings(s, CoveragePattern) = {} THEN {}
          ELSE SeqRange(SectionSpan(s, CoveragePattern)))

\* neither a table row referencing a scenario id nor a line combining a
\* risk keyword with a scenario id
NoScenarioMapping(s) ==
    \A l \in CoverageLines(s) :
        /\ ~(Len(l) > 0 /\ l[1] = "|" /\ HasScenarioId(l))
        /\ ~((\E kw \in RiskKeywords : ContainsI(l, kw)) /\ HasScenarioId(l))

\* the document with its strictness field in the other spelling of the level
Respelled(s) ==
    LET field == SplitLines(s, 1, <<>>)[1]
        lk == CHOOSE x \in (DOMAIN LevelSpellings) \X {1, 2} :
                  field = StrictnessField(LevelSpellings[x[1]][x[2]])
    IN StrictnessField(LevelSpellings[lk[1]][3 - lk[2]])
       \o SubSeq(s, Len(field) + 1, Len(s))

\* C17: for a document whose acceptance and coverage sections hold neither a
\* table row referencing a scenario id nor a line combining a risk keyword
\* with a scenario id, check 13 fails at L2/standard and at L3/full and
\* passes at L1/light, and its outcome is the same for the two spellings of
\* the level.
C17_MatrixRequiredAboveL1 ==
    (pc = "check_13" /\ NoScenarioMapping(text)) =>
        /\ DeclaredLevels(text) \in {{"L2"}, {"L3"}} => ~result.passed
        /\ DeclaredLevels(text) = {"L1"} => result.passed
        /\ result.passed = check_13_coverage_matrix(Respelled(text)).passed


(***************************************************************************)
(* Check 9 applied to a document: the definition of HR-001, a heading that *)
(* names the trigger section or another one, then lines that are YES and   *)
(* NO entries with and without a Links field, Links fields on a line of    *)
(* their own, a line of text and a heading.                                *)
(***************************************************************************)
MaxTrigLines == 2

TrigHeadings ==
    {<<"#", "#", " ", "T", "r", "i", "g", "g", "e", "r">>, <<"#", "#", " ", "x">>}

TrigLines ==
    {<<"-", " ", "a", ":", " ", "Y", "E", "S", " ", "L", "i", "n", "k", "s", ":", " ", "H", "R", "-", "0", "0", "1">>,
     <<"-", " ", "a", ":", " ", "Y", "E", "S">>,
     <<"-", " ", "b", ":", " ", "N", "O", " ", "L", "i", "n", "k", "s", ":", " ", "H", "R", "-", "0", "0", "1">>,
     <<"-", " ", "b", ":", " ", "N", "O">>,
     <<"L", "i", "n", "k", "s", ":", " ", "H", "R", "-", "0", "0", "1">>,
     <<"L", "i", "n", "k", "s", ":", " ", "-">>,
     <<"-", " ", "a", ":", " ", "Y", "E", "S", " ", "L", "i", "n", "k", "s", ":", " ", "H", "R", "-", "0", "0", "2">>,
     <<"-", " ", "a", ":", " ", "Y", "E", "S", " ", "L", "i", "n", "k", "s", ":", " ", "x">>,
     <<"x">>,
     <<"#", "#", " ", "y">>}

InitTrig ==
    /\ text \in {JoinLines(<<<<"H", "R", "-", "0", "0", "1", ":", " ", "r">>, h>> \o ls, 1) :
                    h \in TrigHeadings,
                    ls \in UNION {[1..n -> TrigLines] : n \in 0..MaxTrigLines}}
    /\ evidence = NoEvidence
    /\ CheckStart

Check9 ==
    /\ pc = "start"
    /\ result' = check_9_triggers(text)
    /\ pc' = "check_9"
    /\ CheckFrame

NextTrig == Check9

SpecTrig == InitTrig /\ [][NextTrig]_vars

(***************************************************************************)
(* Claims about check 9                                                    *)
(***************************************************************************)
\* the lines of the trigger section: those after the first heading that
\* names it, up to the next heading of depth 1 to 3
TriggerEntries(s) ==
    LET lines == StrippedLines(s)
        heads == {i \in 1..Len(lines) :
                     /\ DepthOf(lines[i]) > 0
                     /\ \E kw \in TriggerKeywords : ContainsI(lines[i], kw)}
        first == First(heads)
        ends == {j \in (first + 1)..Len(lines) : DepthOf(lines[j]) \in 1..3}
        stop == IF ends = {} THEN Len(lines) + 1 ELSE First(ends)
    IN IF heads = {} THEN None
       ELSE Some([k \in 1..(stop - first - 1) |-> lines[first + k]])

IsEntry(l) == HasWord(l, <<"y", "e", "s">>) \/ HasWord(l, <<"n", "o">>)

IsYesEntry(l) == HasWord(l, <<"y", "e", "s">>) /\ ~HasWord(l, <<"n", "o">>)

\* the text of the entry on line i: its line and the lines that continue it,
\* at most two, up to the next entry
EntryText(lines, i) ==
    LET Continues(k) == /\ i + k <= Len(lines)
                        /\ \A j \in 1..k : ~IsEntry(lines[i + j])
        Next(k) == IF Continues(k) THEN <<" ">> \o lines[i + k] ELSE <<>>
    IN lines[i] \o Next(1) \o Next(2)

\* the entry has a Links field of its own, not empty, with at least one
\* identifier, all of them defined in the document
LinksValid(entry, s) ==
    LET m == LinksMatch(entry) IN
    /\ ~m.none
    /\ m.text \notin EmptyLinks
    /\ LineIds(m.text) # {}
    /\ LineIds(m.text) \subseteq extract_defined_ids(s).defined

\* C18: check 9 passes exactly when the trigger section exists, holds at
\* least one YES/NO entry, and every YES entry has a Links field of its own
\* that is not empty and names at least one identifier, all of them defined
\* in the document; the following entries do not make up for a YES entry
\* that lacks one of these.
C18_TriggersPassIffLinked ==
    pc = "check_9" =>
        (result.passed <=>
            /\ ~TriggerEntries(text).none
            /\ \E i \in 1..Len(TriggerEntries(text).text) :
                  IsEntry(TriggerEntries(text).text[i])
            /\ \A i \in 1..Len(TriggerEntries(text).text) :
                  IsYesEntry(TriggerEntries(text).text[i]) =>
                      LinksValid(EntryText(TriggerEntries(text).text, i), text))


(***************************************************************************)
(* Check 7 applied to a document and an evidence store: the document holds *)
(* the definition of a hard rule, generic or domain-prefixed, alone or     *)
(* with a line that cites EVD-001 some lines before or after it; the store *)
(* holds items that link to no rule, to HR-001 or to SEC-HR-001.           *)
(***************************************************************************)
MaxGap == 10
MaxEvdItems == 1

HrLines == {<<"H", "R", "-", "0", "0", "1", ":", " ", "r">>, <<"S", "E", "C", "-", "H", "R", "-", "0", "0", "1", ":", " ", "r">>}

EvdLine == <<"s", "e", "e", " ", "E", "V", "D", "-", "0", "0", "1">>

\* n lines of filler
Filler(n) == [k \in 1..n |-> <<"x">>]

EvdDocs ==
    {<<h>> : h \in HrLines}
    \cup {<<h>> \o Filler(n) \o <<EvdLine>> : h \in HrLines, n \in 0..MaxGap}
    \cup {<<EvdLine>> \o Filler(n) \o <<h>> : h \in HrLines, n \in 0..MaxGap}

EvdItems ==
    [evd_id : {<<"E", "V", "D", "-", "0", "0", "1">>},
     links_to : {<<>>, <<<<"H", "R", "-", "0", "0", "1">>>>, <<<<"S", "E", "C", "-", "H", "R", "-", "0", "0", "1">>>>},
     truncated : BOOLEAN]

InitEvd ==
    /\ text \in {JoinLines(ls, 1) : ls \in EvdDocs}
    /\ evidence \in {[items |-> its] :
                        its \in UNION {[1..n -> EvdItems] : n \in 0..MaxEvdItems}}
    /\ CheckStart

Check7 ==
    /\ pc = "start"
    /\ result' = check_7_evidence(text, evidence)
    /\ pc' = "check_7"
    /\ CheckFrame

NextEvd == Check7

SpecEvd == InitEvd /\ [][NextEvd]_vars

(***************************************************************************)
(* Claims about check 7                                                    *)
(***************************************************************************)
\* the identifier is a hard rule, generic or domain-prefixed
IsHardRule(id) == StartsWith(id, <<"H", "R", "-">>) \/ Contains(id, <<"-", "H", "R", "-">>)

\* the hard-rule definitions of the document: (line number, identifier)
HardRuleDefinitions(s) ==
    {d \in (1..Len(StrippedLines(s))) \X extract_defined_ids(s).defined :
        /\ IsHardRule(d[2])
        /\ d[2] \in LineIds(StrippedLines(s)[d[1]])
        /\ IsDefinedOn(StrippedLines(s)[d[1]], d[2])}

\* an evidence id is cited at most 10 lines before or after line i
EvidenceNear(s, i) ==
    \E j \in 1..Len(StrippedLines(s)) :
        /\ j >= i - 10 /\ j <= i + 10
        /\ \E id \in LineIds(StrippedLines(s)[j]) : StartsWith(id, <<"E", "V", "D", "-">>)

\* an item of the store has a link that names the hard rule
LinkNames(store, h) ==
    \E k \in 1..Len(store.items) :
        \E n \in 1..Len(store.items[k].links_to) :
            h \in LineIds(store.items[k].links_to[n])

UnlinkedReported(h) ==
    \E k \in 1..Len(result.issues) :
        /\ result.issues[k].kind = "Hard rule has no EVD reference nearby or linked"
        /\ result.issues[k].id = h

\* C19: check 7 reports an unlinked-hard-rule issue for a hard-rule
\* definition exactly when no evidence id is cited within 10 lines before or
\* after the definition line and no item of the evidence store has a
\* links_to that names the hard rule.
C19_UnlinkedIffNoBacking ==
    pc = "check_7" =>
        \A d \in HardRuleDefinitions(text) :
            UnlinkedReported(d[2]) <=>
                (~EvidenceNear(text, d[1]) /\ ~LinkNames(evidence, d[2]))


\* the identifiers of the unlinked-hard-rule issues, in order
UnlinkedIds ==
    LET IsUnlinked(x) == x.kind = "Hard rule has no EVD reference nearby or linked"
        unlinked == SelectSeq(result.issues, IsUnlinked)
    IN [k \in 1..Len(unlinked) |-> unlinked[k].id]

\* C27: a document whose only hard rule is a domain-prefixed one, with no
\* evidence id cited within 10 lines and no link of the store naming it,
\* gets exactly one unlinked-hard-rule issue, naming the domain-prefixed
\* identifier, and none naming the generic identifier inside it.
C27_DomainRuleCountedOnce ==
    pc = "check_7" =>
        \A d \in HardRuleDefinitions(text) :
            (/\ {id \in extract_ids(text) : IsHardRule(id)} = {d[2]}
             /\ ~IsGenericHR(d[2])
             /\ ~EvidenceNear(text, d[1])
             /\ ~LinkNames(evidence, d[2]))
            => UnlinkedIds = <<d[2]>>


(***************************************************************************)
(* Check 10 applied to a document: a first line that defines HR-001 or     *)
(* not, then lines that define hard rules, open a scenario, cite a hard    *)
(* rule with and without the scenario marker, a heading and a line of text.*)
(***************************************************************************)
MaxBindLines == 3

BindFirstLines == {<<"H", "R", "-", "0", "0", "1", ":", " ", "r">>, <<"x">>}

BindLines ==
    {<<"H", "R", "-", "0", "0", "1", ":", " ", "r">>,
     <<"S", "E", "C", "-", "H", "R", "-", "0", "0", "1", ":", " ", "r">>,
     <<"S", "C", "N", "-", "0", "0", "1", ":", " ", "s">>,
     <<"u", "s", "e", "s", " ", "H", "R", "-", "0", "0", "1">>,
     <<"S", "C", "N", "-", "0", "0", "2", " ", "u", "s", "e", "s", " ", "S", "E", "C", "-", "H", "R", "-", "0", "0", "1">>,
     <<"#", " ", "h">>,
     <<"x">>}

InitBind ==
    /\ text \in {JoinLines(<<f>> \o ls, 1) :
                    f \in BindFirstLines,
                    ls \in UNION {[1..n -> BindLines] : n \in 0..MaxBindLines}}
    /\ evidence = NoEvidence
    /\ CheckStart

Check10 ==
    /\ pc = "start"
    /\ result' = check_10_hr_scn_binding(text)
    /\ pc' = "check_10"
    /\ CheckFrame

NextBind == Check10

SpecBind == InitBind /\ [][NextBind]_vars

(***************************************************************************)
(* Claims about check 10                                                   *)
(***************************************************************************)
\* line i lies in a scenario body: a line that starts with a scenario id
\* opens a body, which runs up to the next heading or the next line that
\* starts with the id of a rule, decision, requirement or change
InScenarioBody(lines, i) ==
    \E o \in 1..i :
        /\ ScnMatch(lines[o]) # <<>>
        /\ \A j \in (o + 1)..i : ScnMatch(lines[j]) # <<>> \/ ~EndsScnBlock(lines[j])

\* the identifiers referenced inside a scenario body or on a line that
\* contains the scenario marker
BoundIds(s) ==
    LET lines == StrippedLines(s) IN
    UNION {LineIds(lines[i]) :
              i \in {j \in 1..Len(lines) :
                        \/ InScenarioBody(lines, j)
                        \/ Contains(lines[j], <<"S", "C", "N", "-">>)}}

\* C20: check 10 reports an unbound-hard-rule issue for exactly the defined
\* hard-rule identifiers, generic or domain-prefixed, that are referenced
\* neither inside a scenario body nor on a line containing the scenario
\* marker, and a document without hard-rule definitions passes.
C20_UnboundExactly ==
    pc = "check_10" =>
        /\ {result.issues[k].id : k \in 1..Len(result.issues)}
              = {h \in extract_defined_ids(text).defined : IsHardRule(h)} \ BoundIds(text)
        /\ {h \in extract_defined_ids(text).defined : IsHardRule(h)} = {} => result.passed


(***************************************************************************)
(* The soft checks of a run: check 10 gives the hard result, checks 15, 16 *)
(* and 17 the soft results, in the order of main, and run_gate_a the       *)
(* report.  The document holds mermaid fences, an unresolved list with and *)
(* without an owner, a scenario, hard rules with and without a scenario,   *)
(* a heading and a line of text.                                           *)
(***************************************************************************)
MaxSoftLines == 2

SoftLines ==
    {MermaidFence, Fence,
     <<"x">>,
     <<"H", "a", "r", "d", "-", "U", "n", "r", "e", "s", "o", "l", "v", "e", "d">>,
     <<"-", " ", "a">>,
     <<"-", " ", "o", "w", "n", "e", "r", " ", "b">>,
     <<"S", "C", "N", "-", "0", "0", "1", ":", " ", "s">>,
     <<"H", "R", "-", "0", "0", "1", " ", "S", "C", "N", "-", "0", "0", "1">>,
     <<"H", "R", "-", "0", "0", "2", ":", " ", "r">>,
     <<"#", " ", "h">>}

InitSoft ==
    /\ text \in {JoinLines(ls, 1) :
                    ls \in UNION {[1..n -> SoftLines] : n \in 0..MaxSoftLines}}
    /\ evidence = NoEvidence
    /\ CheckStart

SoftFrame ==
    UNCHANGED <<text, ids, defined, all_ids, check2, chkVars, cfgVars, runVars>>

Hard10 ==
    /\ pc = "start"
    /\ hard_results' = Append(hard_results, check_10_hr_scn_binding(text))
    /\ pc' = "check_10"
    /\ UNCHANGED <<soft_results, report>>
    /\ SoftFrame

Soft15 ==
    /\ pc = "check_10"
    /\ soft_results' = Append(soft_results, check_15_diagram_text_pairing(text))
    /\ pc' = "check_15"
    /\ UNCHANGED <<hard_results, report>>
    /\ SoftFrame

Soft16 ==
    /\ pc = "check_15"
    /\ soft_results' = Append(soft_results, check_16_unresolved_format(text))
    /\ pc' = "check_16"
    /\ UNCHANGED <<hard_results, report>>
    /\ SoftFrame

Soft17 ==
    /\ pc = "check_16"
    /\ soft_results' = Append(soft_results, check_17_orphan_scn(text))
    /\ pc' = "check_17"
    /\ UNCHANGED <<hard_results, report>>
    /\ SoftFrame

SoftReport ==
    /\ pc = "check_17"
    /\ report' = run_gate_a(hard_results, soft_results)
    /\ pc' = "reported"
    /\ UNCHANGED <<hard_results, soft_results>>
    /\ SoftFrame

NextSoft == Hard10 \/ Soft15 \/ Soft16 \/ Soft17 \/ SoftReport

SpecSoft == InitSoft /\ [][NextSoft]_vars

(***************************************************************************)
(* Claims about the soft checks                                            *)
(***************************************************************************)
\* C14: the results of the soft checks 15, 16 and 17 have passed = true and
\* no issues, whatever the document, and say what they find in warnings
\* only; no soft check has its name in hard_fail, and overall is FAIL only
\* when a hard check failed.
C14_SoftChecksNeverFail ==
    /\ \A i \in 1..Len(soft_results) :
          /\ soft_results[i].kind = "soft"
          /\ soft_results[i].passed
          /\ soft_results[i].issues = <<>>
    /\ pc = "reported" =>
          /\ \A i \in 1..Len(soft_results) :
                soft_results[i].name \notin SeqSet(report.hard_fail)
          /\ report.overall = "FAIL" =>
                \E i \in 1..Len(hard_results) : ~hard_results[i].passed

\* a soft check warned, and the report is WARN with no hard failure
C14_Witness ==
    /\ pc = "reported"
    /\ Len(soft_results) = 3
    /\ \E i \in 1..3 : soft_results[i].warnings # <<>>
    /\ report.overall = "WARN"
    /\ report.hard_fail = <<>>


(***************************************************************************)
(* The checks of a run evaluated in any order: a step runs one check that  *)
(* has not run yet on the document, the evidence store and the module      *)
(* constants, and puts its result at the place main gives it in            *)
(* hard_results or soft_results; the report is built from what has run.    *)
(* At most MaxPar checks run.  The checks 1, 4, 5, 6, 11, 12 and 14 are    *)
(* given by what the document makes them find.                             *)
(***************************************************************************)
MaxPar == 2

NumChecks == 17
LastHardCheck == 14

\* the check main calls k-th, applied to the inputs of the run
CheckOf(k, rfc, evidence_store, consts, findings) ==
    CASE k = 2 -> check_2_id_integrity(rfc)
      [] k = 3 -> check_3_placeholders(rfc, consts)
      [] k = 7 -> check_7_evidence(rfc, evidence_store)
      [] k = 8 -> check_8_strictness(rfc)
      [] k = 9 -> check_9_triggers(rfc)
      [] k = 10 -> check_10_hr_scn_binding(rfc)
      [] k = 13 -> check_13_coverage_matrix(rfc)
      [] k = 15 -> check_15_diagram_text_pairing(rfc)
      [] k = 16 -> check_16_unresolved_format(rfc)
      [] k = 17 -> check_17_orphan_scn(rfc)
      [] OTHER -> OtherCheck(CheckTitles[k], "hard", findings)

\* the position of a check in the order of main
RankOf(name) == CHOOSE k \in 1..NumChecks : CheckTitles[k] = name

\* the result put at the end of the list, in the order of running
GatherAppend(results, r) == Append(results, r)

\* the result put into the list at the place main's order gives it
Gather(results, r) ==
    LET before == SelectSeq(results, LAMBDA x : RankOf(x.name) < RankOf(r.name))
        after == SelectSeq(results, LAMBDA x : RankOf(x.name) > RankOf(r.name))
    IN before \o <<r>> \o after

ParDocs == {<<"H", "R", "-", "0", "0", "1", ":", " ", "T", "B", "D">>, <<"S", "C", "N", "-", "0", "0", "1", ":", " ", "s">>}

ParStores ==
    {NoEvidence,
     [items |-> <<[evd_id |-> <<"E", "V", "D", "-", "0", "0", "1">>, links_to |-> <<<<"H", "R", "-", "0", "0", "1">>>>, truncated |-> FALSE]>>]}

UnmodelledTitles ==
    {CheckTitles[k] : k \in {1, 4, 5, 6, 11, 12, 14}}

InitPar ==
    /\ text \in ParDocs
    /\ evidence \in ParStores
    /\ doc_findings \in {{}, UnmodelledTitles}
    /\ constants = DefaultConstants
    /\ pc = "start" /\ result = NoCheck
    /\ heading_pattern = <<>> /\ extracted = None
    /\ adjacent = AbsentFile /\ args = NoArgs
    /\ ids = {} /\ defined = {} /\ all_ids = {} /\ check2 = NoCheck
    /\ IdleAgg /\ IdleCfg

ParFrame ==
    UNCHANGED <<text, ids, defined, all_ids, check2, chkVars, cfgVars, runVars>>

RanNames == SeqSet(NameList(hard_results)) \cup SeqSet(NameList(soft_results))

RunOne(k) ==
    /\ pc \in {"start", "running"}
    /\ Len(hard_results) + Len(soft_results) < MaxPar
    /\ CheckTitles[k] \notin RanNames
    /\ \E r \in {CheckOf(k, text, evidence, constants, doc_findings)} :
          IF k <= LastHardCheck
          THEN /\ hard_results' = Gather(hard_results, r)
               /\ UNCHANGED soft_results
          ELSE /\ soft_results' = Gather(soft_results, r)
               /\ UNCHANGED hard_results
    /\ pc' = "running"
    /\ UNCHANGED report
    /\ ParFrame

ParReport ==
    /\ pc = "running"
    /\ report' = run_gate_a(hard_results, soft_results)
    /\ pc' = "reported"
    /\ UNCHANGED <<hard_results, soft_results>>
    /\ ParFrame

NextPar == (\E k \in 1..NumChecks : RunOne(k)) \/ ParReport

SpecPar == InitPar /\ [][NextPar]_vars

(***************************************************************************)
(* Claims about the order of the checks                                    *)
(***************************************************************************)
\* the results main would have for the checks that ran, in its own order
InMainOrder(names, from, to) ==
    LET ran == SelectSeq([k \in 1..(to - from + 1) |-> from + k - 1],
                         LAMBDA k : CheckTitles[k] \in names)
    IN [i \in 1..Len(ran) |-> CheckOf(ran[i], text, evidence, constants, doc_findings)]

NextRef == Check2 \/ Check7

SpecRef == InitEvd /\ [][NextRef]_vars

(***************************************************************************)
(* Claims about evidence identifiers in check 2                            *)
(***************************************************************************)
IsEvidenceId(id) == StartsWith(id, <<"E", "V", "D", "-">>)

\* the evidence identifiers the document cites and defines nowhere
CitedEvidence(s) ==
    {id \in extract_ids(s) : IsEvidenceId(id) /\ DefinitionLines(s, id) = {}}

\* C28: check 2 reports no dangling-reference issue for an evidence
\* identifier that the document cites in reference position and defines
\* nowhere.
C28_EvidenceReferenceOnly ==
    pc = "check_2" => \A id \in CitedEvidence(text) : ~DanglingReported(id)


(***************************************************************************)
(* Checks 2 and 7 applied to documents with many findings: n lines that    *)
(* each cite one more undefined decision, or m lines that each cite one    *)
(* more evidence id; the store is empty, holds the first evidence id, or   *)
(* holds an evidence id the document does not cite.                        *)
(***************************************************************************)
MaxDangling == 11
MaxMissing == 6

DigitSeq == <<"0", "1", "2", "3", "4", "5", "6", "7", "8", "9">>

\* the identifier KIND-0kk
NumberedId(kind, k) ==
    kind \o <<"-", "0", DigitSeq[(k \div 10) + 1], DigitSeq[(k % 10) + 1]>>

\* k lines, line i citing the i-th identifier of the kind after a colon
CitingLines(kind, k) == [i \in 1..k |-> <<":">> \o NumberedId(kind, i)]

ManyDocs ==
    {CitingLines(<<"D", "E", "C">>, n) : n \in 0..MaxDangling}
    \cup {CitingLines(<<"E", "V", "D">>, m) : m \in 0..MaxMissing}

ManyStores ==
    {NoEvidence} \cup
    {[items |-> <<[evd_id |-> NumberedId(<<"E", "V", "D">>, k),
                   links_to |-> <<>>, truncated |-> FALSE]>>] : k \in {1, 99}}

InitMany ==
    /\ text \in {JoinLines(ls, 1) : ls \in ManyDocs}
    /\ evidence \in ManyStores
    /\ CheckStart

NextMany == Check2 \/ Check7

SpecMany == InitMany /\ [][NextMany]_vars

(***************************************************************************)
(* Claims about the number of findings reported                            *)
(***************************************************************************)
\* the identifiers that occur in the document and have no definition in it
DanglingIds(s) ==
    {id \in extract_ids(s) : ~IsEvidenceId(id) /\ DefinitionLines(s, id) = {}}

\* the evidence ids the document cites that no item of the store carries
MissingEvidence(s, store) ==
    {id \in extract_ids(s) : IsEvidenceId(id)}
    \ {store.items[k].evd_id : k \in 1..Len(store.items)}

IssuesOfKind(r, kind) == SelectSeq(r.issues, LAMBDA x : x.kind = kind)

\* C25: check 2 emits one dangling-reference issue for each of the n
\* identifiers, evidence ids aside, that occur without a definition, and
\* check 7 with a non-empty store emits one missing-evidence issue for each
\* of the m cited evidence ids the store lacks, whatever n and m are.
C25_EveryFindingReported ==
    /\ pc = "check_2" =>
          Cardinality({x \in SeqRange(IssuesOfKind(check2, "Dangling reference")) :
                          ~IsEvidenceId(x.id)})
              = Cardinality(DanglingIds(text))
    /\ (pc = "check_7" /\ evidence.items # <<>>) =>
          Len(IssuesOfKind(result, "EVD referenced in rfc.md but missing in evidence.json"))
              = Cardinality(MissingEvidence(text, evidence))


(***************************************************************************)
(* Claims about several definitions on one line                            *)
(***************************************************************************)
\* the positions of a table row at which a cell begins: the first
\* character that is not a space after a bar
CellStarts(stripped) ==
    IF Len(stripped) >= 1 /\ stripped[1] = "|"
    THEN {q \in 2..Len(stripped) :
             /\ stripped[q] \notin SpaceChars \cup {"|"}
             /\ \E b \in 1..(q - 1) :
                    /\ stripped[b] = "|"
                    /\ \A k \in (b + 1)..(q - 1) : stripped[k] \in SpaceChars}
    ELSE {}

\* the identifiers that begin a cell of some table row of the document
CellIds(s) ==
    {id \in extract_ids(s) :
        \E i \in 1..Len(StrippedLines(s)) :
            \E q \in CellStarts(StrippedLines(s)[i]) :
                TokenAt(StrippedLines(s)[i], q, id)}

\* C24: every identifier that begins a cell of a table row is in the
\* defined set of extract_defined_ids, also when the row has several such
\* cells.
C24_AllDefinitionsOfALine ==
    pc = "extract_defined_ids" => CellIds(text) \subseteq defined


(***************************************************************************)
(* Checks 8 and 13 applied to the documents of SpecStrict.                 *)
(***************************************************************************)
NextLevel == Check8 \/ Check13

SpecLevel == InitStrict /\ [][NextLevel]_vars

(***************************************************************************)
(* Claims about the strictness level of checks 8 and 13                    *)
(***************************************************************************)
\* the level check 8 accepts, "none" when it finds no valid value
AcceptedLevel(s) ==
    IF ~ContainsI(s, StrictnessWord) \/ StrictnessMatch8(s) = <<>> THEN "none"
    ELSE LevelOf(StrictnessMatch8(s))

\* the level check 13 gates on, "none" when it skips
GatingLevel(s) ==
    IF StrictnessMatch13(s) = <<>> THEN "none"
    ELSE LevelOf(Lower(StrictnessMatch13(s)))

\* C30: when check 8 accepts the strictness of a document as level X (light,
\* standard, full mapped onto L1, L2, L3), check 13 gates the coverage
\* matrix on the same level X; the level in the issue of a failed check 13
\* is that level.
C30_SameStrictnessLevel ==
    pc = "check_13" =>
        /\ AcceptedLevel(text) # "none" => GatingLevel(text) = AcceptedLevel(text)
        /\ (~result.passed /\ AcceptedLevel(text) # "none") =>
               LevelOf(Lower(result.issues[1].id)) = AcceptedLevel(text)


(***************************************************************************)
(* Check 17 applied to a document: the definition of SCN-001, then lines   *)
(* that cite it on a hard-rule line, open the acceptance section, declare  *)
(* it must-pass, open the trigger section, cite it in the Links field of a *)
(* trigger and outside a Links field, define SCN-002, or are plain text.   *)
(***************************************************************************)
MaxOrphanLines == 3

OrphanLines ==
    {<<"H", "R", "-", "0", "0", "1", ":", " ", "r", " ", "S", "C", "N", "-", "0", "0", "1">>,
     <<"#", "#", " ", "1", "1">>,
     <<"m", "u", "s", "t", "_", "p", "a", "s", "s", ":", " ", "S", "C", "N", "-", "0", "0", "1">>,
     <<"#", "#", " ", "T", "r", "i", "g", "g", "e", "r">>,
     <<"-", " ", "a", ":", " ", "Y", "E", "S", " ", "L", "i", "n", "k", "s", ":", " ", "S", "C", "N", "-", "0", "0", "1">>,
     <<"-", " ", "b", ":", " ", "N", "O", " ", "s", "e", "e", " ", "S", "C", "N", "-", "0", "0", "1">>,
     <<"S", "C", "N", "-", "0", "0", "2", ":", " ", "t">>,
     <<"x">>}

InitOrphan ==
    /\ text \in {JoinLines(<<<<"S", "C", "N", "-", "0", "0", "1", ":", " ", "s">>>> \o ls, 1) :
                    ls \in UNION {[1..n -> OrphanLines] : n \in 0..MaxOrphanLines}}
    /\ evidence = NoEvidence
    /\ CheckStart

Check17 ==
    /\ pc = "start"
    /\ result' = check_17_orphan_scn(text)
    /\ pc' = "check_17"
    /\ CheckFrame

NextOrphan == Check17

SpecOrphan == InitOrphan /\ [][NextOrphan]_vars

(***************************************************************************)
(* Claims about check 17                                                   *)
(***************************************************************************)
IsScenarioId(id) == StartsWith(id, <<"S", "C", "N", "-">>)

\* the lines of the first section whose title matches, heading included
SectionLines(s, alts) ==
    IF MatchingHeadings(s, alts) = {} THEN <<>> ELSE SectionSpan(s, alts)

\* the scenarios cited on a line that holds a hard-rule identifier
HardRuleLineRefs(s) ==
    UNION {{id \in LineIds(StrippedLines(s)[i]) : IsScenarioId(id)} :
              i \in {j \in 1..Len(StrippedLines(s)) :
                         \E h \in LineIds(StrippedLines(s)[j]) : IsHardRule(h)}}

\* the scenarios of the must-pass set: those cited in the acceptance section
\* on the line of a must-pass declaration or on a line after it
MustPassSet(s) ==
    LET lines == SectionLines(s, AcceptancePattern) IN
    UNION {{id \in LineIds(lines[i]) : IsScenarioId(id)} :
              i \in {j \in 1..Len(lines) :
                         \E k \in 1..j : SearchAny(MustPassPattern, lines[k])}}

\* the scenarios cited in the Links field of a line of the trigger section
TriggerLinkRefs(s) ==
    LET lines == SectionLines(s, TriggerPattern) IN
    UNION {{id \in LineIds(LinksMatch(lines[i]).text) : IsScenarioId(id)} :
              i \in {j \in 1..Len(lines) : ~LinksMatch(lines[j]).none}}

OrphanWarnings ==
    {result.warnings[k].id :
        k \in {j \in 1..Len(result.warnings) : result.warnings[j].kind = "Orphan SCN"}}

\* C22: check 17 warns of an orphan for exactly the defined scenarios that
\* no hard-rule line cites, that are not in the must-pass set of the
\* acceptance section and that no Links field of a trigger cites; it emits
\* one warning for each of them and nothing else.
C22_OrphanExactly ==
    pc = "check_17" =>
        /\ OrphanWarnings =
              {id \in extract_defined_ids(text).defined : IsScenarioId(id)}
              \ (HardRuleLineRefs(text) \cup MustPassSet(text) \cup TriggerLinkRefs(text))
        /\ Len(result.warnings) = Cardinality(OrphanWarnings)
        /\ result.passed /\ result.issues = <<>>


(***************************************************************************)
(* Check 12 applied to a document: the heading of the acceptance section   *)
(* or a line of text, then lines that declare SCN-001 or SCN-002 must-pass,*)
(* define SCN-001, cite SCN-002, are blank or open another section.        *)
(***************************************************************************)
MaxMustLines == 3

MustFirstLines == {<<"#", "#", " ", "1", "1">>, <<"x">>}

MustLines ==
    {<<"m", "u", "s", "t", "-", "p", "a", "s", "s", ":", " ", "S", "C", "N", "-", "0", "0", "1">>,
     <<"m", "u", "s", "t", "-", "p", "a", "s", "s", ":", " ", "S", "C", "N", "-", "0", "0", "2">>,
     <<"S", "C", "N", "-", "0", "0", "1", ":", " ", "s">>,
     <<"s", "e", "e", " ", "S", "C", "N", "-", "0", "0", "2">>,
     <<"#", " ", "h">>,
     <<>>}

InitMust ==
    /\ text \in {JoinLines(<<f>> \o ls, 1) :
                    f \in MustFirstLines,
                    ls \in UNION {[1..n -> MustLines] : n \in 0..MaxMustLines}}
    /\ evidence = NoEvidence
    /\ CheckStart

Check12 ==
    /\ pc = "start"
    /\ result' = check_12_must_pass_validity(text)
    /\ pc' = "check_12"
    /\ CheckFrame

NextMust == Check12

SpecMust == InitMust /\ [][NextMust]_vars

(***************************************************************************)
(* Claims about check 12                                                   *)
(***************************************************************************)
\* line j of the section belongs to a must-pass declaration: a line that
\* names must-pass, or a line that continues one (no blank line and no
\* heading since)
InDeclaration(lines, j) ==
    \E k \in 1..j :
        /\ SearchAny(MustPassPattern12, lines[k])
        /\ \A m \in (k + 1)..j : lines[m] # <<>> /\ ~StartsWith(lines[m], <<"#">>)

\* the scenarios that appear inside a must-pass declaration of the
\* acceptance section
DeclaredMustPass(s) ==
    LET lines == SectionLines(s, AcceptancePattern) IN
    UNION {{id \in LineIds(lines[j]) : IsScenarioId(id)} :
              j \in {x \in 1..Len(lines) : InDeclaration(lines, x)}}

UndefinedMustPass ==
    {result.issues[k].id :
        k \in {j \in 1..Len(result.issues) :
                   result.issues[j].kind = "Must-pass SCN is not defined"}}

\* C21: check 12 reports an undefined-must-pass issue for exactly the
\* scenarios that appear inside a must-pass declaration of the acceptance
\* section and are not defined in the document, one issue each; it passes
\* when there is none, and when the document has no acceptance section.
C21_UndefinedMustPassExactly ==
    pc = "check_12" =>
        /\ UndefinedMustPass =
              DeclaredMustPass(text)
              \ {id \in extract_defined_ids(text).defined : IsScenarioId(id)}
        /\ Len(result.issues) = Cardinality(UndefinedMustPass)
        /\ result.passed <=> UndefinedMustPass = {}

(***************************************************************************)
(* Check 6 applied to a document: a heading that names three categories,   *)
(* then lines that declare a category, name one in a heading, or carry the *)
(* phrase for "not applicable" or a category name in either spelling.      *)
(***************************************************************************)
MaxCatLines == 2

CatFirstLines ==
    {<<"#", " ", "n", "o", "r", "m", "a", "l", " ", "a", "b", "u", "s", "e", " ", "a", "u", "t", "h", "n">>,
     <<"#", " ", "n", "o", "r", "m", "a", "l", " ", "a", "b", "u", "s", "e", " ", "q", "u", "o", "t", "a">>}

CatLines ==
    {<<"S", "C", "N", "-", "0", "0", "1", ":", " ", "l", "i", "m", "i", "t", "s", "_", "q", "u", "o", "t", "a">>,
     <<"S", "C", "N", "-", "0", "0", "2", ":", " ", "d", "e", "p", "e", "n", "d", "e", "n", "c", "y", "_", "d", "o", "w", "n">>,
     <<"#", " ", "r", "e", "c", "o", "v", "e", "r", "y">>,
     <<"l", "i", "m", "i", "t", "s", "_", "q", "u", "o", "t", "a", " ", "zh_bu", "zh_shi2", "zh_yong">>,
     <<"l", "i", "m", "i", "t", "s", ".", "q", "u", "o", "t", "a">>,
     <<"zh_bu", "zh_shi2", "zh_yong">>,
     <<"r", "e", "j", "e", "c", "t", "_", "a", "u", "t", "h", "n">>,
     <<"d", "e", "p", "e", "n", "d", "e", "n", "c", "y", ".", "d", "o", "w", "n">>}

InitCat ==
    /\ text \in {JoinLines(<<f>> \o ls, 1) :
                    f \in CatFirstLines,
                    ls \in UNION {[1..n -> CatLines] : n \in 0..MaxCatLines}}
    /\ evidence = NoEvidence
    /\ CheckStart

Check6 ==
    /\ pc = "start"
    /\ result' = check_6_scn_coverage(text)
    /\ pc' = "check_6"
    /\ CheckFrame

NextCat == Check6

SpecCat == InitCat /\ [][NextCat]_vars

(***************************************************************************)
(* Claims about check 6                                                    *)
(***************************************************************************)
\* the document justifies the absence of a category: the phrase for "not
\* applicable" and the name of the category both occur in it
JustifiedByName(rfc, cat) == Contains(rfc, NotApplicable) /\ Contains(Lower(rfc), cat)

\* the requirements that are neither met nor excused: a required category
\* other than the rejection ones that is not found, and the rejection
\* requirement when no rejection category is found
Unexcused(rfc) ==
    LET found == FoundCategories(rfc) IN
    {cat \in MinScnCategories \ RejectCategories :
        cat \notin found /\ ~JustifiedByName(rfc, cat)}
    \cup (IF \/ found \cap RejectCategories # {}
             \/ \E cat \in RejectCategories : JustifiedByName(rfc, cat)
          THEN {} ELSE {RejectPlaceholder})

\* C23: check 6 passes exactly when every required category other than the
\* rejection ones is found or excused by a justification, and a rejection
\* category is found or excused; otherwise it fails with one issue that
\* lists the missing categories by name.
C23_CoverageOrJustified ==
    pc = "check_6" =>
        /\ result.passed <=> Unexcused(text) = {}
        /\ ~result.passed => result.issues = <<MissingIssue(Unexcused(text))>>

(***************************************************************************)
(* Check 7 applied to an evidence store as it is read from the file: the   *)
(* optional fields of an item are absent, null, a string or a list.        *)
(***************************************************************************)
MaxRawItems == 2

RawHrLine == <<"H", "R", "-", "0", "0", "1", ":", " ", "r">>

RawDocs ==
    {<<RawHrLine>>, <<<<"x">>>>, <<EvdLine>>, <<RawHrLine, EvdLine>>}

RawLinks ==
    {[t |-> "absent", v |-> <<>>],
     [t |-> "null", v |-> <<>>],
     [t |-> "str", v |-> <<<<"H", "R", "-", "0", "0", "1">>>>],
     [t |-> "list", v |-> <<<<"H", "R", "-", "0", "0", "1">>>>]}

RawItems ==
    [evd_id : {<<"E", "V", "D", "-", "0", "0", "1">>},
     links_to : RawLinks,
     truncated : {"absent", "null", "true", "false"}]

InitRaw ==
    /\ text \in {JoinLines(ls, 1) : ls \in RawDocs}
    /\ evidence \in {[items |-> its] :
                        its \in UNION {[1..n -> RawItems] : n \in 0..MaxRawItems}}
    /\ CheckStart

\* the call of check 7: it returns a result, or it ends with an exception
\* and returns none
Check7Raw ==
    /\ pc = "start"
    /\ IF check_7_raises(text, evidence)
       THEN pc' = "raised" /\ result' = result
       ELSE pc' = "check_7" /\ result' = check_7_evidence(text, StoreOf(evidence))
    /\ CheckFrame

NextRaw == Check7Raw

SpecRaw == InitRaw /\ [][NextRaw]_vars

\* C26: no check raises: for every document and every evidence store whose
\* items have an evidence id and optional fields that are absent, null, a
\* string or a list, check 7 completes and returns a result.
C26_NoCheckRaises == pc # "raised"

=============================================================================
